---- MODULE Spec2Model ----
(***************************************************************************)
(* A model of the arbitrage bot (src/src): the scanner/executor of App.py, *)
(* the request Worker, the path enumerator and order generator of Path.py, *)
(* the price ladders of Market.py and the order rules of Order.py and      *)
(* rules/*.py.                                                             *)
(*                                                                         *)
(* Spec        the scanner thread, the adapter threads (market updates and *)
(*             order updates), the request worker and the main thread.     *)
(* SpecQueue   the scan queue: every market stream, the scanner, App.exit. *)
(* SpecPaths   the startup: markets, deposits, generate_all_paths.         *)
(* SpecBook    the ladders of one market under its stream.                 *)
(* SpecOrders  Path.generate_orders on the ladders of a started program.   *)
(* SpecRules   Order.make_valid on an order of a market with rules.        *)
(* SpecSizeRule  Order.make_valid under one SizeRule.                      *)
(* SpecAmounts the amounts of an order, and Order.set_target_amount.       *)
(* SpecFailures  Spec with requests that can fail in the worker.           *)
(* SpecTriangle  Path.generate_orders on a triangle of one exchange.       *)
(* SpecScan    Market.scan_paths on the ladders of a started program.      *)
(* SpecChains  parallelize_orders on a list of orders.                     *)
(* SpecLongRun Order.make_valid under two SizeRules of neighbouring steps. *)
(* SpecStep    one SizeRule.make_valid on an order.                        *)
(* SpecExit    Spec with App.exit, every thread and Worker scheduled       *)
(*             fairly.                                                     *)
(* SpecCoalesce  SpecQueue with the scanner scheduled fairly.              *)
(* SpecLive    Spec with every thread scheduled fairly and a terminal      *)
(*             status for every order sent.                                *)
(***************************************************************************)
EXTENDS Integers, Sequences, FiniteSets, TLC

VARIABLES
    env,                 \* the surroundings: the markets with a live stream, whether any path
                         \* is profitable, whether a request can fail in transport, the
                         \* books (market and side) that the streams carry, with the
                         \* prices and the sizes they send, the precision of the
                         \* decimal context
    settings,            \* App.load_settings: the configuration, fixed after construction
    trading_enabled,     \* App.trading_enabled
    stop,                \* App.stop
    clock,               \* time.time()
    pendingScans,        \* App._pendingScans (queue.Queue)
    pendingScansList,    \* App._pendingScansList (keys)
    pc,                  \* position of the scanner thread in arbitrage_worker
    market,              \* the scanner's local `market`
    order_list,          \* the scanner's local `order_list` (chains of order indices)
    sequence_id,         \* the scanner's local `sequence_id`
    tmpSequences,        \* the value of currentSequences the scanner loaded for `+= 1`
    sequences,           \* App.sequences: sequence id -> remaining count
    order_sequence,      \* App.order_sequence: key -> next order id or None
    orders,              \* App.orders: order id -> "order" or None
    sId,                 \* Order._sId of every order created so far
    currentSequences,    \* App.currentSequences
    lastSequenceStarted, \* App.lastSequenceStarted
    tasks,               \* App._tasks (the queue shared with the Workers)
    workers,             \* per Worker: "running" or "exited"
    exchangeOrders,      \* orders the exchange has received and not yet ended
    cbTmp,               \* on_order_update inside sequencesMutex: loaded currentSequences, or None
    cbSeq,               \* on_order_update inside sequencesMutex: its sequence_id
    nextId,              \* number of candidates the scanner has picked so far (uuid source)
    hist,                \* history of what happened, per candidate (not program state)
    edges,               \* ExchangeCurrency._edges of every vertex: code -> {currency, market}
    phase,               \* startup: "markets", "deposits", then "paths"
    start_currency,      \* generate_all_paths: its start_currency
    max_depth,           \* generate_all_paths: its max_depth
    paths,               \* generate_all_paths: the list it returned
    bidHeap,             \* Market._bidHeap of every market
    askHeap,             \* Market._askHeap of every market
    lastUpdate,          \* history, kept where env.record is set: the last ladder call
                         \* and the side's entries before it
    rules,               \* Market._rules of every market
    takerFee,            \* Market._takerFee of every market
    generated,           \* history: the last call of Path.generate_orders on the ladders
                         \* as they are, and its result
    order,               \* an Order
    outcome              \* history: how each make_valid call on the order ended

appVars == <<env, settings, trading_enabled, stop, clock, pendingScans, pendingScansList,
             pc, market, order_list, sequence_id, tmpSequences, sequences,
             order_sequence, orders, sId, currentSequences, lastSequenceStarted,
             tasks, workers, exchangeOrders, cbTmp, cbSeq, nextId, hist>>

graphVars == <<edges, phase, start_currency, max_depth, paths>>

ladderVars == <<bidHeap, askHeap, lastUpdate>>

orderVars == <<rules, takerFee, generated, order, outcome>>

vars == <<appVars, graphVars, ladderVars, orderVars>>

(***************************************************************************)
(* Bounds of the model.                                                    *)
(***************************************************************************)
NumMarkets == 2          \* markets whose streams schedule scans
MaxCandidates == 2       \* candidates the scanner picks in one run
MaxTrades == 2           \* trading (non-deposit) orders of one candidate
MaxMaximumSequences == 1 \* largest configured maximumSequences
MaxTimeBetween == 0      \* largest configured timeBetweenSequences
MaxClock == 1            \* ticks of time.time() after start
MaxBalance == 1          \* largest balance of an order's source currency
NumWorkers == 1          \* cpu_count()
NumCodes == 3            \* currencies (code 1 is the start currency of App.generate_paths)
NumExchanges == 2        \* exchanges
MaxDepth == 4            \* largest maxDepth
MaxPrice == 3            \* prices of a ladder are 1..MaxPrice
MaxSize == 2             \* sizes of a ladder update are 0..MaxSize
DecimalPrec == 3         \* significant digits a Decimal quotient is rounded to
MaxQuantity == 4         \* largest quantity and maximum size of an order under test
MaxOrderPrice == 2       \* largest price of an order under test
MaxStep == 2             \* largest step of a SizeRule
MaxMinValue == 3         \* largest min_value of a ValueRule
MaxRules == 2            \* longest rule list of a market
MaxOrders == 5           \* longest order list given to parallelize_orders on its own
MaxAmount == 5           \* largest initial amount of generate_orders (orderMaxAmount)

Markets == 1..NumMarkets

(***************************************************************************)
(* Orders as the executor sees them.  An order of a candidate is a record  *)
(* [dep, balance, amount]: is_deposit(), the balance of its source         *)
(* currency and its source amount.  The order with index i of the k-th     *)
(* candidate has the id <<k, i>> (Order.get_id, a fresh uuid).             *)
(***************************************************************************)
NoOrder == <<0, 0>>      \* None, where an order id is expected
NoMarket == 0            \* None, in the scan queue
Shutdown == <<0, 0>>     \* the task {"id": 0}

TradeOrders == [dep : {FALSE}, balance : 0..MaxBalance, amount : {1}]
DepositOrders == [dep : {TRUE}, balance : {0}, amount : {1}]

\* What Path.generate_orders can hand over: a cycle never starts or ends with a
\* deposit leg and never has two deposit legs in a row (generate_all_paths).
Candidates ==
    {c \in UNION {[1..n -> TradeOrders \cup DepositOrders] : n \in 1..(2 * MaxTrades - 1)} :
        /\ Cardinality({i \in 1..Len(c) : ~c[i].dep}) <= MaxTrades
        /\ ~c[1].dep
        /\ ~c[Len(c)].dep
        /\ \A i \in 1..(Len(c) - 1) : ~(c[i].dep /\ c[i + 1].dep)}

can_be_executed(o) == o.balance >= o.amount

RECURSIVE FirstDeposit(_, _)
FirstDeposit(os, i) ==
    IF i > Len(os) \/ os[i].dep THEN i ELSE FirstDeposit(os, i + 1)

\* parallelize_orders, first loop: the runs of orders between deposits, as indices
RECURSIVE SplitDeposits(_, _)
SplitDeposits(os, i) ==
    IF i > Len(os) THEN <<>>
    ELSE LET j == FirstDeposit(os, i)
             run == [x \in 1..(j - i) |-> i + x - 1]
         IN  <<run>> \o SplitDeposits(os, j + 1)

\* parallelize_orders, second loop, for one run: a new list starts at every
\* order that can be executed
RECURSIVE SplitExecutable(_, _, _, _)
\* parallelize_orders with an exchange's orders never split
SplitExecutable_Never(os, group, i, tmp) == <<group>>

SplitExecutable(os, group, i, tmp) ==
    IF i > Len(group) THEN <<tmp>>
    ELSE IF can_be_executed(os[group[i]])
         THEN (IF Len(tmp) > 0 THEN <<tmp>> ELSE <<>>)
                  \o SplitExecutable(os, group, i + 1, <<group[i]>>)
         ELSE SplitExecutable(os, group, i + 1, Append(tmp, group[i]))

RECURSIVE SplitAll(_, _, _)
SplitAll(os, groups, g) ==
    IF g > Len(groups) THEN <<>>
    ELSE SplitExecutable(os, groups[g], 1, <<>>) \o SplitAll(os, groups, g + 1)

parallelize_orders(os) == SplitAll(os, SplitDeposits(os, 1), 1)

\* can_scan without the test against maximumSequences
can_scan_NoMaximum(multi, current, now, last, between, maximum) ==
    \/ (~multi /\ current = 0)
    \/ (multi /\ (now - last) > between)

\* arbitrage_worker, the admission test
can_scan(multi, current, now, last, between, maximum) ==
    \/ (~multi /\ current = 0)
    \/ (multi /\ (now - last) > between /\ (maximum = 0 \/ current < maximum))

\* the test for sequential orders left out
SequentialOrders_Never(allowed, chains) == FALSE

\* arbitrage_worker: "There are sequential orders"
SequentialOrders(allowed, chains) ==
    ~allowed /\ \E c \in 1..Len(chains) : Len(chains[c]) > 1

\* the balance test left out
InsufficientBalance_Never(os, chain) == FALSE

\* arbitrage_worker: "InsufficientBalance"
InsufficientBalance(os, chain) ==
    Len(chain) > 0 /\ ~can_be_executed(os[chain[1]])

\* arbitrage_worker, lines 330-347, for one chain of candidate k: r is
\* [count, oseq, sid, raised], the sequence's count, order_sequence, the orders'
\* _sId and whether an exception has been raised.  An empty chain passes the
\* balance test and the range loop and fails at orders[len(orders) - 1].
\* the registration of a chain without the count of its last order (line 346)
RegisterChain_LastUncounted(os, k, chain, r) ==
    IF r.raised THEN r
    ELSE IF InsufficientBalance(os, chain) \/ Len(chain) = 0
         THEN [r EXCEPT !.raised = TRUE]
         ELSE [r EXCEPT !.count = r.count + Len(chain) - 1]

RegisterChain(os, k, chain, r) ==
    IF r.raised THEN r
    ELSE IF InsufficientBalance(os, chain) \/ Len(chain) = 0
         THEN [r EXCEPT !.raised = TRUE]
         ELSE LET n == Len(chain)
                  links == [key \in {<<0, k, chain[i]>> : i \in 1..(n - 1)} |->
                              <<k, chain[(CHOOSE i \in 1..(n - 1) : chain[i] = key[3]) + 1]>>]
                  \* the last order is stored under the Order itself, not its id
                  last == <<1, k, chain[n]>> :> NoOrder
              IN  [count |-> r.count + n,
                   oseq |-> (links @@ last) @@ r.oseq,
                   sid |-> [o \in {<<k, chain[i]>> : i \in 1..n} |-> k] @@ r.sid,
                   raised |-> FALSE]

RECURSIVE RegisterChains(_, _, _, _, _)
RegisterChains(os, k, chains, c, r) ==
    IF c > Len(chains) THEN r
    ELSE RegisterChains(os, k, chains, c + 1, RegisterChain(os, k, chains[c], r))

\* The first orders of the chains, in order (lines 349-351)
RECURSIVE ChainHeads(_, _, _)
\* every order of the chains executed at once
ChainHeads_All(k, chains, c) ==
    IF c > Len(chains) THEN <<>>
    ELSE [j \in 1..Len(chains[c]) |-> <<k, chains[c][j]>>] \o ChainHeads(k, chains, c + 1)

ChainHeads(k, chains, c) ==
    IF c > Len(chains) THEN <<>>
    ELSE (IF Len(chains[c]) > 0 THEN <<(<<k, chains[c][1]>>)>> ELSE <<>>)
             \o ChainHeads(k, chains, c + 1)

(***************************************************************************)
(* The history kept per candidate, for the properties only.                *)
(***************************************************************************)
NoHist == [orders |-> <<>>, unfunded |-> FALSE, chained |-> FALSE,
           admitted |-> FALSE, started |-> FALSE, st |-> <<>>]

SetStatus(h, o, status) == [h EXCEPT ![o[1]].st[o[2]] = status]

RECURSIVE SetStatuses(_, _, _)
SetStatuses(h, os, status) ==
    IF os = <<>> THEN h ELSE SetStatuses(SetStatus(h, Head(os), status), Tail(os), status)

(***************************************************************************)
(* The currency graph.  A vertex is an ExchangeCurrency <<code, exchange>>; *)
(* its _edges maps a currency code to {currency, market}.  A market is     *)
(* [base, quote, deposit].                                                 *)
(***************************************************************************)
Codes == 1..NumCodes
Exchanges == 1..NumExchanges
Vertices == Codes \X Exchanges

get_code(v) == v[1]

NoVertex == <<0, 0>>
NoEdge == [currency |-> NoVertex,
           market |-> [base |-> NoVertex, quote |-> NoVertex, deposit |-> FALSE]]

\* ExchangeCurrency.add_neighbour_currency: the edges E after
\* self.add_neighbour_currency(currency, market)
RECURSIVE add_neighbour_currency(_, _, _, _)
add_neighbour_currency(E, self, currency, mkt) ==
    IF E[self][get_code(currency)] = NoEdge
    THEN add_neighbour_currency(
             [E EXCEPT ![self][get_code(currency)] = [currency |-> currency, market |-> mkt]],
             currency, self, mkt)
    ELSE E

\* Exchange._currencies holds a vertex once a market names it
Created(E, v) == \E c \in Codes : E[v][c] # NoEdge

\* `neighbor_currency in current_path`
InPath(v, path) == \E i \in 1..Len(path) : path[i] = v

\* helper, line 141: "this is a valid path"
IsValidPath(start, current, current_path) ==
    Len(current_path) > 1 /\ get_code(start) = get_code(current)

\* generate_all_paths.helper: the paths it appends to valid_paths, in order.
\* Neighbours(..., c) is the body of `for neighbor in current_currency` from the
\* code c on (the dict is walked in the order of the codes here).
RECURSIVE helper(_, _, _, _, _, _), Neighbours(_, _, _, _, _, _, _)
helper(E, maxd, start, current, current_path, depth) ==
    IF depth > maxd THEN <<>>
    ELSE IF IsValidPath(start, current, current_path) THEN <<current_path>>
    ELSE Neighbours(E, maxd, start, current, current_path, depth, 1)

\* the loop over the neighbours with a deposit allowed as the first move
Neighbours_DepositFirst(E, maxd, start, current, current_path, depth, c) ==
    IF c > NumCodes THEN <<>>
    ELSE (IF E[current][c] = NoEdge THEN <<>>
          ELSE IF InPath(E[current][c].currency, current_path)
                  /\ current_path[1] # E[current][c].currency THEN <<>>
          ELSE helper(E, maxd, start, E[current][c].currency,
                      Append(current_path, E[current][c].currency), depth + 1))
         \o Neighbours(E, maxd, start, current, current_path, depth, c + 1)

Neighbours(E, maxd, start, current, current_path, depth, c) ==
    IF c > NumCodes THEN <<>>
    ELSE LET edge == E[current][c]
             neighbor_currency == edge.currency
             found ==
                 IF edge = NoEdge THEN <<>>
                 ELSE IF Len(current_path) = 1 /\ edge.market.deposit THEN <<>>
                 ELSE IF InPath(neighbor_currency, current_path)
                         /\ current_path[1] # neighbor_currency THEN <<>>
                 ELSE helper(E, maxd, start, neighbor_currency,
                             Append(current_path, neighbor_currency), depth + 1)
         IN  found \o Neighbours(E, maxd, start, current, current_path, depth, c + 1)

generate_all_paths(E, start, maxd) == helper(E, maxd, start, start, <<start>>, 1)

\* The Market objects there can be: a trading market joins two currencies of an
\* exchange, a deposit market one currency on two exchanges
AllMarkets ==
    {m \in [base : Vertices, quote : Vertices, deposit : BOOLEAN] :
        IF m.deposit
        THEN get_code(m.base) = get_code(m.quote) /\ m.base[2] # m.quote[2]
        ELSE get_code(m.base) # get_code(m.quote) /\ m.base[2] = m.quote[2]}

\* The market of the book that is followed on its own
BookMarket == [base |-> <<2, 1>>, quote |-> <<1, 1>>, deposit |-> FALSE]

InitGraph ==
    /\ edges = [v \in Vertices |-> [c \in Codes |-> NoEdge]]
    /\ phase = "markets"
    /\ start_currency = NoVertex
    /\ max_depth = 0
    /\ paths = <<>>

(***************************************************************************)
(* The price ladders of a Market: two heapq heaps of ScoreItems.  Position *)
(* i of a Python list is position i + 1 here.                              *)
(***************************************************************************)
Prices == 1..MaxPrice
Sizes == 0..MaxSize

\* ScoreItem.__init__
ScoreItem(score, item, inversed) ==
    [score |-> IF inversed THEN -score ELSE score, item |-> item, inversed |-> inversed]

\* ScoreItem.get_score, ScoreItem.get_item, ScoreItem.__lt__
get_score(x) == IF x.inversed THEN -x.score ELSE x.score
get_item(x) == x.item
lt(a, b) == a.score < b.score

NoItem == [score |-> 0, item |-> 0, inversed |-> FALSE]   \* None

DepositSize == 9999999   \* the size of both entries of a deposit market

\* heapq._siftdown(heap, startpos, pos), newitem being heap[pos]
RECURSIVE siftdown(_, _, _, _)
siftdown(heap, startpos, pos, newitem) ==
    IF pos > startpos /\ lt(newitem, heap[pos \div 2])
    THEN siftdown([heap EXCEPT ![pos] = heap[pos \div 2]], startpos, pos \div 2, newitem)
    ELSE [heap EXCEPT ![pos] = newitem]

\* heapq._siftup(heap, pos): startpos is pos at the call, newitem is heap[pos]
RECURSIVE siftup(_, _, _, _)
siftup(heap, startpos, pos, newitem) ==
    LET childpos == 2 * pos
        rightpos == childpos + 1
    IN  IF childpos <= Len(heap)
        THEN LET c == IF rightpos <= Len(heap) /\ ~lt(heap[childpos], heap[rightpos])
                      THEN rightpos ELSE childpos
             IN  siftup([heap EXCEPT ![pos] = heap[c]], startpos, c, newitem)
        ELSE siftdown([heap EXCEPT ![pos] = newitem], startpos, pos, newitem)

\* heapq.heappush(heap, item)
heappush(heap, x) == siftdown(Append(heap, x), 1, Len(heap) + 1, x)

RECURSIVE heapifyFrom(_, _)
heapifyFrom(heap, i) ==
    IF i < 1 THEN heap ELSE heapifyFrom(siftup(heap, i, i, heap[i]), i - 1)

\* the list left as list.pop(index) leaves it
heapify_Skipped(heap) == heap

\* heapq.heapify(heap): _siftup for i in reversed(range(n // 2))
heapify(heap) == heapifyFrom(heap, Len(heap) \div 2)

\* list.pop(index)
pop(heap, index) == [i \in 1..(Len(heap) - 1) |-> IF i < index THEN heap[i] ELSE heap[i + 1]]

\* the search loop of update_bid_price and update_ask_price: the first index
\* whose score is the price, or 0 for None
IndexOf(heap, price) ==
    IF \E i \in 1..Len(heap) : get_score(heap[i]) = price
    THEN CHOOSE i \in 1..Len(heap) :
             /\ get_score(heap[i]) = price
             /\ \A j \in 1..(i - 1) : get_score(heap[j]) # price
    ELSE 0

\* the body of update_bid_price (inversed) and update_ask_price
update_price(heap, price, quantity, inversed) ==
    LET index == IndexOf(heap, price)
    IN  IF quantity = 0 /\ index # 0 THEN heapify(pop(heap, index))
        ELSE IF quantity > 0 /\ index # 0 THEN [heap EXCEPT ![index].item = quantity]
        ELSE heappush(heap, ScoreItem(price, quantity, inversed))

\* Market.get_bid_price and Market.get_ask_price
get_bid_price(heap) == IF Len(heap) > 0 THEN heap[1] ELSE NoItem
get_ask_price(heap) == IF Len(heap) > 0 THEN heap[1] ELSE NoItem

NoUpdate == [op |-> "none", market |-> NoEdge.market, price |-> 0, quantity |-> 0,
             before |-> <<>>]

InitLadder ==
    /\ bidHeap = [m \in AllMarkets |-> <<>>]
    /\ askHeap = [m \in AllMarkets |-> <<>>]
    /\ lastUpdate = NoUpdate

(***************************************************************************)
(* decimal.Decimal: a number is <<numerator, denominator>> in lowest terms *)
(* with a positive denominator.  A constructor is exact; the result of an  *)
(* operation (+, -, *, /, %) is rounded half-even to the precision of the  *)
(* context, env.prec significant digits (DecimalPrec unless said).         *)
(***************************************************************************)
Abs(x) == IF x < 0 THEN -x ELSE x

RECURSIVE Gcd(_, _)
Gcd(a, b) == IF b = 0 THEN a ELSE Gcd(b, a % b)

Dec(n, d) == LET g == Gcd(Abs(n), d) IN <<n \div g, d \div g>>
D(i) == <<i, 1>>

\* a < b and a <= b: by the whole parts and, when these are equal, by the rest
DLt(a, b) ==
    IF a[1] \div a[2] # b[1] \div b[2] THEN a[1] \div a[2] < b[1] \div b[2]
    ELSE (a[1] % a[2]) * b[2] < (b[1] % b[2]) * a[2]
DLe(a, b) == ~DLt(b, a)
DIsZero(a) == a[1] = 0

RECURSIVE Pow10(_)
Pow10(k) == IF k = 0 THEN 1 ELSE 10 * Pow10(k - 1)

\* n / d (both positive) with prec significant digits, half-even: up and down
\* are the powers of ten the quotient has been multiplied and divided by
RECURSIVE RoundQuotient(_, _, _, _, _)
RoundQuotient(n, d, up, down, prec) ==
    IF n * up < Pow10(prec - 1) * d * down THEN RoundQuotient(n, d, up * 10, down, prec)
    ELSE IF n * up >= Pow10(prec) * d * down THEN RoundQuotient(n, d, up, down * 10, prec)
    ELSE LET q == (n * up) \div (d * down)
             r == (n * up) % (d * down)
             q1 == IF 2 * r > d * down \/ (2 * r = d * down /\ q % 2 = 1) THEN q + 1 ELSE q
         IN  Dec(q1 * down, up)

\* The exact result n / d (d positive) of an operation, rounded by the context
Negated(a) == <<-a[1], a[2]>>
Rounded(n, d) ==
    IF n = 0 THEN D(0)
    ELSE IF n < 0 THEN Negated(RoundQuotient(-n, d, 1, 1, env.prec))
    ELSE RoundQuotient(n, d, 1, 1, env.prec)

DAdd(a, b) == Rounded(a[1] * b[2] + b[1] * a[2], a[2] * b[2])
DSub(a, b) == Rounded(a[1] * b[2] - b[1] * a[2], a[2] * b[2])
DMul(a, b) == Rounded(a[1] * b[1], a[2] * b[2])

\* a / b, b not zero
DDiv(a, b) ==
    IF b[1] < 0 THEN Rounded(-(a[1] * b[2]), a[2] * (-b[1]))
    ELSE Rounded(a[1] * b[2], a[2] * b[1])

\* a % b, b not zero: the remainder has the sign of a
DMod(a, b) ==
    IF a[1] < 0 THEN Rounded(-(((-a[1]) * b[2]) % (a[2] * Abs(b[1]))), a[2] * b[2])
    ELSE Rounded((a[1] * b[2]) % (a[2] * Abs(b[1])), a[2] * b[2])

(***************************************************************************)
(* Orders and the rules of a market.  An Order is [price, quantity, side,  *)
(* market, maximum, minimum]; a rule is a SizeRule or a ValueRule.         *)
(***************************************************************************)
SizeRule(minimum, maximum, step) ==
    [type |-> "SizeRule", minimum |-> minimum, maximum |-> maximum, step |-> step,
     min_value |-> D(0)]
ValueRule(min_value) ==
    [type |-> "ValueRule", minimum |-> D(0), maximum |-> D(0), step |-> D(0),
     min_value |-> min_value]

\* Order.__init__
Order(price, quantity, side, mkt, maximum_amount, minimum_amount) ==
    [price |-> price, quantity |-> quantity, side |-> side, market |-> mkt,
     maximum |-> maximum_amount, minimum |-> minimum_amount]

set_size(o, size) == [o EXCEPT !.quantity = size]

\* What a call that may raise ImpossibleOrder gives: the order as the call
\* left it, whether it raised, and what a rule returned
Returned(o, changes) == [order |-> o, raised |-> FALSE, changes |-> changes]
Raised(o) == [order |-> o, raised |-> TRUE, changes |-> FALSE]

\* SizeRule.make_valid with the step never looked at
SizeRuleStep_Skipped(rule, o, changes) == Returned(o, changes)

\* SizeRule.make_valid, lines 34-52: the step
SizeRuleStep(rule, o, changes) ==
    IF DIsZero(rule.step) THEN Returned(o, changes)
    ELSE LET mod == DMod(o.quantity, rule.step)
             first_option == DSub(o.quantity, mod)
             second_option == DAdd(o.quantity, mod)
         IN  IF DIsZero(mod) THEN Returned(o, changes)
             ELSE IF DLe(o.minimum, first_option) /\ DLt(first_option, o.maximum)
                  THEN Returned(set_size(o, first_option), TRUE)
             ELSE IF DLe(o.minimum, second_option) /\ DLt(second_option, o.maximum)
                  THEN Returned(set_size(o, second_option), TRUE)
             ELSE Raised(o)

\* SizeRule.make_valid with the size raised to the minimum whatever the
\* maximum of the order is
SizeRule_make_valid_Uncapped(rule, o) ==
    LET low == DLt(D(0), rule.minimum) /\ DLt(o.quantity, rule.minimum)
    IN  SizeRuleStep(rule, IF low THEN set_size(o, rule.minimum) ELSE o, low)

\* SizeRule.make_valid
SizeRule_make_valid(rule, o) ==
    IF DLt(D(0), rule.minimum) /\ DLt(o.maximum, rule.minimum) THEN Raised(o)
    ELSE IF (DLt(D(0), rule.maximum) /\ DLt(rule.maximum, o.minimum))
               \/ DLt(o.maximum, o.minimum) THEN Raised(o)
    ELSE LET low == DLt(D(0), rule.minimum) /\ DLt(o.quantity, rule.minimum)
             o1 == IF low THEN set_size(o, rule.minimum) ELSE o
             high == DLt(D(0), rule.maximum) /\ DLt(rule.maximum, o1.quantity)
             o2 == IF high THEN set_size(o1, rule.maximum) ELSE o1
         IN  SizeRuleStep(rule, o2, low \/ high)

\* ValueRule.make_valid (the price is not zero)
ValueRule_make_valid(rule, o) ==
    LET value == DMul(o.price, o.quantity)
        min_size == DDiv(rule.min_value, o.price)
    IN  IF DLt(value, rule.min_value)
        THEN IF DLt(o.maximum, min_size) THEN Raised(o)
             ELSE Returned(set_size(o, min_size), FALSE)
        ELSE Returned(o, FALSE)

Rule_make_valid(rule, o) ==
    IF rule.type = "SizeRule" THEN SizeRule_make_valid(rule, o)
    ELSE ValueRule_make_valid(rule, o)

\* Order.make_valid, lines 61-62: one pass over the rules, from rule i on;
\* RuleDone is the pass after rule i has given r
RECURSIVE RulesPass(_, _, _, _)
RuleDone(market_rules, i, r, changes) ==
    IF r.raised THEN r
    ELSE RulesPass(market_rules, i + 1, r.order, r.changes \/ changes)

RulesPass(market_rules, i, o, changes) ==
    IF i > Len(market_rules) THEN Returned(o, changes)
    ELSE RuleDone(market_rules, i, Rule_make_valid(market_rules[i], o), changes)

MAX == 100

\* Order.make_valid, lines 55-56: the locals of the loop (with the order, and
\* whether a rule has raised ImpossibleOrder)
LoopStart(o) == [order |-> o, changes |-> TRUE, iterations |-> 0, raised |-> FALSE]

\* Order.make_valid, line 57: the test of the while loop
Looping(s) == ~s.raised /\ s.changes /\ s.iterations < MAX

\* Order.make_valid, lines 58-64: one iteration, whose pass has given r
Iteration(s, r) ==
    [order |-> r.order, changes |-> r.changes, iterations |-> s.iterations + 1,
     raised |-> r.raised]

\* Order.make_valid, lines 57-64: the while loop from the locals s, for n
\* iterations at most (the first half of them, then the rest)
RECURSIVE MakeValidLoop(_, _, _)
MakeValidLoop(market_rules, s, n) ==
    IF ~Looping(s) THEN s
    ELSE IF n = 1 THEN Iteration(s, RulesPass(market_rules, 1, s.order, FALSE))
    ELSE MakeValidLoop(market_rules, MakeValidLoop(market_rules, s, n \div 2),
                       n - (n \div 2))

\* Order.make_valid, lines 66-67: the test after the loop
LoopEnd(s) ==
    IF s.raised \/ s.iterations >= MAX THEN Raised(s.order) ELSE Returned(s.order, FALSE)

\* Order.make_valid
make_valid(market_rules, o) == LoopEnd(MakeValidLoop(market_rules, LoopStart(o), MAX))

(***************************************************************************)
(* Path: the future orders of a path, and generate_orders.                 *)
(***************************************************************************)
\* Path.add_currency with every leg sold
add_currency_Sell(E, previous_currency, currency) ==
    [side |-> "SELL", market |-> E[previous_currency][get_code(currency)].market]

\* Path.add_currency: the future order of the leg previous_currency -> currency
add_currency(E, previous_currency, currency) ==
    LET mkt == E[previous_currency][get_code(currency)].market
    IN  [side |-> IF mkt.base = previous_currency THEN "SELL" ELSE "BUY", market |-> mkt]

\* Path._orders of the path with these currencies
PathOrders(E, currencies) ==
    [i \in 1..(Len(currencies) - 1) |-> add_currency(E, currencies[i], currencies[i + 1])]

is_deposit(o) == o.market.deposit

\* Order.get_source_currency, Order.get_target_currency
get_source_currency(o) == IF o.side = "BUY" THEN o.market.quote ELSE o.market.base
get_target_currency(o) == IF o.side = "BUY" THEN o.market.base ELSE o.market.quote

\* Order.get_source_amount, Order.get_target_amount
get_source_amount(o) == IF o.side = "BUY" THEN DMul(o.quantity, o.price) ELSE o.quantity

\* Order.get_target_amount with the fees never taken off
get_target_amount_NoFees(o, include_fees) ==
    IF o.side = "BUY" THEN o.quantity ELSE DMul(o.quantity, o.price)

get_target_amount(o, include_fees) ==
    LET value == IF o.side = "BUY" THEN o.quantity ELSE DMul(o.quantity, o.price)
    IN  IF include_fees THEN DMul(value, DSub(D(1), takerFee[o.market])) ELSE value

\* Order.set_target_amount (the taker fee is below 1)
set_target_amount(o, amount, include_fees) ==
    LET multiplier == IF include_fees THEN DSub(D(1), takerFee[o.market]) ELSE D(1)
        new_size == IF o.side = "BUY" THEN DDiv(amount, multiplier)
                    ELSE DDiv(amount, DMul(o.price, multiplier))
    IN  IF o.side = "SELL" /\ DIsZero(o.price) THEN Raised(o)
        ELSE IF DLt(o.maximum, new_size) THEN Raised(o)
        ELSE make_valid(rules[o.market], [o EXCEPT !.quantity = new_size, !.minimum = new_size])

\* generate_orders, lines 96-114: the orders before the reduced one revised,
\* from the i-th backwards; raised when an order is impossible
RECURSIVE Revise(_, _, _)
\* lines 108-114: the i-th order has been revised, which gave r
ReviseDone(os, i, tmp_orders, r) ==
    IF r.raised THEN [orders |-> <<>>, raised |-> TRUE]
    ELSE Revise(os, i - 1, <<r.order>> \o tmp_orders)

Revise(os, i, tmp_orders) ==
    IF i < 1 THEN [orders |-> tmp_orders, raised |-> FALSE]
    ELSE ReviseDone(os, i, tmp_orders,
                    IF is_deposit(os[i])
                    THEN Returned(set_size(os[i], get_source_amount(os[1])), FALSE)
                    ELSE set_target_amount(os[i], get_source_amount(os[1]), TRUE))

\* generate_orders, lines 51-121: the loop from the k-th future order on
RECURSIVE GenerateFrom(_, _, _, _, _)
\* generate_orders, lines 62, 92 and 114: return None
ReturnNone(reduced) == [none |-> TRUE, orders |-> <<>>, reduced |-> reduced]

\* lines 110-119: the orders before the k-th have been revised, which gave rev
OrdersRevised(future, k, os, reduced, made, rev) ==
    IF rev.raised THEN ReturnNone(reduced)
    ELSE GenerateFrom(future, k + 1, rev.orders, get_target_amount(made.order, TRUE),
                      IF os # <<>> THEN k ELSE reduced)

\* lines 88-119: make_valid on the k-th order has given made
OrderMade(future, k, os, reduced, reduce, made) ==
    IF made.raised THEN ReturnNone(reduced)
    ELSE IF reduce
         THEN OrdersRevised(future, k, os, reduced, made,
                            Revise(os, Len(os), <<made.order>>))
         ELSE GenerateFrom(future, k + 1, Append(os, made.order),
                           get_target_amount(made.order, TRUE), reduced)

GenerateFrom(future, k, os, current_amount, reduced) ==
    IF k > Len(future) THEN [none |-> FALSE, orders |-> os, reduced |-> reduced]
    ELSE LET mkt == future[k].market
             side == future[k].side
             top == IF side = "BUY" THEN get_ask_price(askHeap[mkt])
                    ELSE get_bid_price(bidHeap[mkt])
             max_size == D(get_item(top))
             price == D(get_score(top))
             wanted == IF side = "BUY" THEN DDiv(current_amount, price) ELSE current_amount
             reduce == DLt(max_size, wanted)
             quantity == IF reduce THEN max_size ELSE wanted
         IN  IF top = NoItem THEN ReturnNone(reduced)
             ELSE OrderMade(future, k, os, reduced, reduce,
                            make_valid(rules[mkt],
                                       Order(price, quantity, side, mkt, quantity, D(0))))

\* Path.generate_orders(initial_amount) of the path with these future orders
generate_orders(future, initial_amount) == GenerateFrom(future, 1, <<>>, initial_amount, 0)

NoOrderYet == Order(D(0), D(0), "BUY", NoEdge.market, D(0), D(0))

\* The rule lists and the orders that are tried
SizeRules ==
    {SizeRule(D(a), D(b), D(c)) : a \in 0..1, b \in {0, MaxQuantity}, c \in 0..MaxStep}
ValueRules == {ValueRule(D(v)) : v \in {1, MaxMinValue}}
RuleLists == UNION {[1..n -> SizeRules \cup ValueRules] : n \in 0..MaxRules}

TestOrders ==
    {Order(D(p), D(q), side, BookMarket, D(mx), D(mn)) :
        p \in 1..MaxOrderPrice, q \in 1..MaxQuantity, side \in {"BUY"},
        mx \in 1..MaxQuantity, mn \in 0..1}

NotGenerated == [path |-> 0, initial_amount |-> D(0), none |-> TRUE, orders |-> <<>>,
                 revised |-> FALSE, reduced |-> 0]

InitOrder ==
    /\ rules = [m \in AllMarkets |-> <<>>]
    /\ takerFee = [m \in AllMarkets |-> D(0)]
    /\ generated = NotGenerated
    /\ order = NoOrderYet
    /\ outcome = <<>>

SettingsSet ==
    [multipleSequences : BOOLEAN,
     maximumSequences : 0..MaxMaximumSequences,
     timeBetweenSequences : 0..MaxTimeBetween,
     sequentialSequencesEnabled : BOOLEAN]

\* settings.json as shipped with the bot, but for maximumSequences
DefaultSettings ==
    [multipleSequences |-> FALSE, maximumSequences |-> 0,
     timeBetweenSequences |-> 0, sequentialSequencesEnabled |-> FALSE]

InitApp ==
    /\ trading_enabled = FALSE
    /\ stop = FALSE
    /\ clock = settings.timeBetweenSequences + 1
    /\ pendingScans = <<>>
    /\ pendingScansList = {}
    /\ pc = "get"
    /\ market = NoMarket
    /\ order_list = <<>>
    /\ sequence_id = 0
    /\ tmpSequences = 0
    /\ sequences = <<>>
    /\ order_sequence = <<>>
    /\ orders = <<>>
    /\ sId = <<>>
    /\ currentSequences = 0
    /\ lastSequenceStarted = 0
    /\ tasks = <<>>
    /\ workers = [w \in 1..NumWorkers |-> "running"]
    /\ exchangeOrders = {}
    /\ cbTmp = 0
    /\ cbSeq = 0
    /\ nextId = 0
    /\ hist = [k \in 1..MaxCandidates |-> NoHist]

\* Surroundings in which nothing happens
Quiet == [markets |-> {}, solutions |-> FALSE, failures |-> FALSE,
          books |-> {}, prices |-> {}, sizes |-> {}, record |-> FALSE,
          prec |-> DecimalPrec]

\* One market stream, paths that may be profitable, requests that reach the exchange
Init ==
    /\ env = [Quiet EXCEPT !.markets = {1}, !.solutions = TRUE]
    /\ settings \in SettingsSet
    /\ InitApp
    /\ InitGraph
    /\ InitLadder
    /\ InitOrder

\* One market stream, paths that may be profitable, and requests that may fail
\* on their way to the exchange; chains are allowed, and the sequences are
\* neither capped nor spaced
InitFailures ==
    /\ env = [Quiet EXCEPT !.markets = {1}, !.solutions = TRUE, !.failures = TRUE]
    /\ settings \in {s \in SettingsSet :
                        /\ s.sequentialSequencesEnabled
                        /\ s.maximumSequences = 0
                        /\ s.timeBetweenSequences = 0}
    /\ InitApp
    /\ InitGraph
    /\ InitLadder
    /\ InitOrder

\* One market stream, paths that may be profitable, the settings as shipped
InitExit ==
    /\ env = [Quiet EXCEPT !.markets = {1}, !.solutions = TRUE]
    /\ settings = DefaultSettings
    /\ InitApp
    /\ InitGraph
    /\ InitLadder
    /\ InitOrder

\* Every market stream, and no profitable path
InitQueue ==
    /\ env = [Quiet EXCEPT !.markets = Markets]
    /\ settings \in SettingsSet
    /\ InitApp
    /\ InitGraph
    /\ InitLadder
    /\ InitOrder

\* No market stream: the program before App.run
InitStartup ==
    /\ env = Quiet
    /\ settings = DefaultSettings
    /\ InitApp
    /\ InitGraph
    /\ InitLadder
    /\ InitOrder

\* The markets after the startup of two exchanges: the market of currency 2
\* against currency 1 on each of them, and the deposit of currency 2 from the
\* second to the first
SecondMarket == [base |-> <<2, 2>>, quote |-> <<1, 2>>, deposit |-> FALSE]
DepositMarket == [base |-> <<2, 2>>, quote |-> <<2, 1>> , deposit |-> TRUE]

StartedEdges ==
    LET E0 == [v \in Vertices |-> [c \in Codes |-> NoEdge]]
        E1 == add_neighbour_currency(E0, BookMarket.base, BookMarket.quote, BookMarket)
        E2 == add_neighbour_currency(E1, SecondMarket.base, SecondMarket.quote, SecondMarket)
    IN  add_neighbour_currency(E2, DepositMarket.base, DepositMarket.quote, DepositMarket)

\* App.generate_paths: the paths from currency 1 on every exchange, from exchange e on
RECURSIVE App_generate_paths(_, _, _)
App_generate_paths(E, maxd, e) ==
    IF e > NumExchanges THEN <<>>
    ELSE generate_all_paths(E, <<1, e>>, maxd) \o App_generate_paths(E, maxd, e + 1)

\* The rule lists and the taker fees of the trading markets after the startup
StartedRules == {<<>>, <<SizeRule(D(1), D(0), D(1)), ValueRule(D(1))>>}
StartedFees == {D(0), Dec(1, 2)}

\* The program after the startup, with the streams of two books: the asks of
\* the first market and the bids of the second
InitStarted ==
    /\ env = [Quiet EXCEPT
                 !.books = {<<BookMarket, "ask">>, <<SecondMarket, "bid">>},
                 !.prices = {1, MaxPrice}, !.sizes = Sizes]
    /\ settings = DefaultSettings
    /\ InitApp
    /\ edges = StartedEdges
    /\ phase = "paths"
    /\ start_currency = NoVertex
    /\ max_depth = MaxDepth
    /\ paths = App_generate_paths(StartedEdges, MaxDepth, 1)
    /\ bidHeap = [m \in AllMarkets |->
                    IF m = DepositMarket THEN update_price(<<>>, 1, DepositSize, TRUE) ELSE <<>>]
    /\ askHeap = [m \in AllMarkets |->
                    IF m = DepositMarket THEN update_price(<<>>, 1, DepositSize, FALSE) ELSE <<>>]
    /\ lastUpdate = NoUpdate
    /\ \E l \in StartedRules : rules = [m \in AllMarkets |-> IF m.deposit THEN <<>> ELSE l]
    /\ \E f \in StartedFees : takerFee = [m \in AllMarkets |-> IF m.deposit THEN D(0) ELSE f]
    /\ generated = NotGenerated
    /\ order = NoOrderYet
    /\ outcome = <<>>

\* The program after the startup on one exchange with three markets that close
\* a triangle, 1 -> 2 -> 3 -> 1, with the streams of the books its path reads:
\* the asks of the first market and the bids of the other two; no rules, no fees
InitTriangle ==
    LET second == [base |-> <<2, 1>>, quote |-> <<3, 1>>, deposit |-> FALSE]
        third == [base |-> <<3, 1>>, quote |-> <<1, 1>>, deposit |-> FALSE]
        E0 == [v \in Vertices |-> [c \in Codes |-> NoEdge]]
        E1 == add_neighbour_currency(E0, BookMarket.base, BookMarket.quote, BookMarket)
        E2 == add_neighbour_currency(E1, second.base, second.quote, second)
        E3 == add_neighbour_currency(E2, third.base, third.quote, third)
    IN  /\ env = [Quiet EXCEPT
                     !.books = {<<BookMarket, "ask">>, <<second, "bid">>, <<third, "bid">>},
                     !.prices = {1, MaxPrice}, !.sizes = Sizes]
        /\ settings = DefaultSettings
        /\ InitApp
        /\ edges = E3
        /\ phase = "paths"
        /\ start_currency = NoVertex
        /\ max_depth = MaxDepth
        /\ paths = App_generate_paths(E3, MaxDepth, 1)
        /\ bidHeap = [m \in AllMarkets |-> <<>>]
        /\ askHeap = [m \in AllMarkets |-> <<>>]
        /\ lastUpdate = NoUpdate
        /\ rules = [m \in AllMarkets |-> <<>>]
        /\ takerFee = [m \in AllMarkets |-> D(0)]
        /\ generated = NotGenerated
        /\ order = NoOrderYet
        /\ outcome = <<>>

\* The program after the startup, with the streams of three books: the asks
\* and the bids of the first market and the bids of the second; no rules
InitScan ==
    /\ env = [Quiet EXCEPT
                 !.books = {<<BookMarket, "ask">>, <<BookMarket, "bid">>,
                            <<SecondMarket, "bid">>},
                 !.prices = {1, MaxPrice}, !.sizes = Sizes]
    /\ settings = DefaultSettings
    /\ InitApp
    /\ edges = StartedEdges
    /\ phase = "paths"
    /\ start_currency = NoVertex
    /\ max_depth = MaxDepth
    /\ paths = App_generate_paths(StartedEdges, MaxDepth, 1)
    /\ bidHeap = [m \in AllMarkets |->
                    IF m = DepositMarket THEN update_price(<<>>, 1, DepositSize, TRUE) ELSE <<>>]
    /\ askHeap = [m \in AllMarkets |->
                    IF m = DepositMarket THEN update_price(<<>>, 1, DepositSize, FALSE) ELSE <<>>]
    /\ lastUpdate = NoUpdate
    /\ rules = [m \in AllMarkets |-> <<>>]
    /\ \E f \in StartedFees : takerFee = [m \in AllMarkets |-> IF m.deposit THEN D(0) ELSE f]
    /\ generated = NotGenerated
    /\ order = NoOrderYet
    /\ outcome = <<>>

\* An order on a market with rules, and no stream
InitRules ==
    /\ env = Quiet
    /\ settings = DefaultSettings
    /\ InitApp
    /\ InitGraph
    /\ InitLadder
    /\ \E l \in RuleLists : rules = [m \in AllMarkets |-> IF m = BookMarket THEN l ELSE <<>>]
    /\ takerFee = [m \in AllMarkets |-> D(0)]
    /\ generated = NotGenerated
    /\ order \in TestOrders
    /\ outcome = <<>>

\* The size rules and the orders of a market whose only rule is a SizeRule:
\* steps in halves, quantities in odd quarters
HalfSteps == {Dec(c, 2) : c \in 0..(2 * MaxStep)}
LoneSizeRules ==
    {SizeRule(D(a), D(b), c) : a \in 0..MaxStep, b \in 0..(MaxQuantity - 1), c \in HalfSteps}
QuarterOrders ==
    {Order(D(1), Dec(2 * q - 1, 4), "BUY", BookMarket, D(mx), D(mn)) :
        q \in 1..(2 * MaxQuantity), mx \in 1..MaxQuantity, mn \in 0..1}

\* An order on a market whose only rule is a SizeRule
InitSizeRule ==
    /\ env = Quiet
    /\ settings = DefaultSettings
    /\ InitApp
    /\ InitGraph
    /\ InitLadder
    /\ \E r \in LoneSizeRules :
          rules = [m \in AllMarkets |-> IF m = BookMarket THEN <<r>> ELSE <<>>]
    /\ takerFee = [m \in AllMarkets |-> D(0)]
    /\ generated = NotGenerated
    /\ order \in QuarterOrders
    /\ outcome = <<>>

\* Two SizeRules whose steps are MAX and MAX + 1, in both orders, and the
\* orders whose quantity is a multiple of a step below MAX * MAX
NeighbourSteps ==
    LET a == SizeRule(D(0), D(0), D(MAX))
        b == SizeRule(D(0), D(0), D(MAX + 1))
    IN  {<<a, b>>, <<b, a>>}
LongOrders ==
    {Order(D(1), D(j * s), "BUY", BookMarket, D(MAX * MAX), D(0)) :
        j \in 1..(MAX - 1), s \in {MAX, MAX + 1}}

\* An order on a market with two SizeRules of neighbouring steps, under a
\* decimal context that holds every multiple of a step below MAX * MAX
InitLongRun ==
    /\ env = [Quiet EXCEPT !.prec = DecimalPrec + 1]
    /\ settings = DefaultSettings
    /\ InitApp
    /\ InitGraph
    /\ InitLadder
    /\ \E l \in NeighbourSteps :
          rules = [m \in AllMarkets |-> IF m = BookMarket THEN l ELSE <<>>]
    /\ takerFee = [m \in AllMarkets |-> D(0)]
    /\ generated = NotGenerated
    /\ order \in LongOrders
    /\ outcome = <<>>

\* The orders whose amounts are read and set: both sides, on the first market
AmountOrders ==
    {Order(D(p), D(q), side, BookMarket, D(mx), D(0)) :
        p \in 0..MaxPrice, q \in 1..MaxQuantity, side \in {"BUY", "SELL"},
        mx \in {1, MaxQuantity}}

\* An order on a market without rules, with or without a taker fee
InitAmounts ==
    /\ env = Quiet
    /\ settings = DefaultSettings
    /\ InitApp
    /\ InitGraph
    /\ InitLadder
    /\ rules = [m \in AllMarkets |-> <<>>]
    /\ \E f \in StartedFees : takerFee = [m \in AllMarkets |-> IF m = BookMarket THEN f ELSE D(0)]
    /\ generated = NotGenerated
    /\ order \in AmountOrders
    /\ outcome = <<>>

\* One market whose stream carries one side of the book, and no scanner
InitBook ==
    /\ \E side \in {"bid", "ask"} :
          env = [Quiet EXCEPT !.books = {<<BookMarket, side>>}, !.prices = Prices,
                                !.sizes = Sizes, !.record = TRUE]
    /\ settings = DefaultSettings
    /\ InitApp
    /\ InitGraph
    /\ InitLadder
    /\ InitOrder

\* the scanner's loop with no test of self.stop
LoopHead_Forever == "get"

\* `while not self.stop` at the head of the scanner's loop
LoopHead == IF stop THEN "exited" ELSE "get"

(***************************************************************************)
(* Adapter stream threads and the main thread.                             *)
(***************************************************************************)
\* the pending test left out
IsPending_Never(m, list) == FALSE

\* schedule_market_scan: market.get_id() in self._pendingScansList
IsPending(m, list) == m \in list

\* App.schedule_market_scan, called by a market stream after a ladder update
schedule_market_scan(m) ==
    /\ ~stop
    /\ m \in env.markets
    /\ IF ~IsPending(m, pendingScansList)
       THEN /\ pendingScansList' = pendingScansList \cup {m}
            /\ pendingScans' = Append(pendingScans, m)
       ELSE UNCHANGED <<pendingScansList, pendingScans>>
    /\ UNCHANGED <<graphVars, ladderVars, orderVars>>
    /\ UNCHANGED <<env, settings, trading_enabled, stop, clock, pc, market, order_list,
                   sequence_id, tmpSequences, sequences, order_sequence, orders, sId,
                   currentSequences, lastSequenceStarted, tasks, workers,
                   exchangeOrders, cbTmp, cbSeq, nextId, hist>>

\* App.activate
activate ==
    /\ ~trading_enabled
    /\ trading_enabled' = TRUE
    /\ UNCHANGED <<graphVars, ladderVars, orderVars>>
    /\ UNCHANGED <<env, settings, stop, clock, pendingScans, pendingScansList, pc, market,
                   order_list, sequence_id, tmpSequences, sequences,
                   order_sequence, orders, sId, currentSequences, lastSequenceStarted,
                   tasks, workers, exchangeOrders, cbTmp, cbSeq, nextId, hist>>

\* App.exit: the stop flag, the adapters' streams stopped, one shutdown task per
\* Worker, the None sentinel for the scanner
exit ==
    /\ ~stop
    /\ stop' = TRUE
    /\ tasks' = tasks \o [w \in 1..NumWorkers |-> Shutdown]
    /\ pendingScans' = Append(pendingScans, NoMarket)
    /\ UNCHANGED <<graphVars, ladderVars, orderVars>>
    /\ UNCHANGED <<env, settings, trading_enabled, clock, pendingScansList, pc, market, order_list, sequence_id, tmpSequences, sequences, order_sequence,
                   orders, sId, currentSequences, lastSequenceStarted, workers,
                   exchangeOrders, cbTmp, cbSeq, nextId, hist>>

\* time.time() advances
Tick ==
    /\ clock < settings.timeBetweenSequences + 1 + MaxClock
    /\ clock' = clock + 1
    /\ UNCHANGED <<graphVars, ladderVars, orderVars>>
    /\ UNCHANGED <<env, settings, trading_enabled, stop, pendingScans, pendingScansList, pc,
                   market, order_list, sequence_id, tmpSequences, sequences,
                   order_sequence, orders, sId, currentSequences, lastSequenceStarted,
                   tasks, workers, exchangeOrders, cbTmp, cbSeq, nextId, hist>>

(***************************************************************************)
(* The scanner thread: App.arbitrage_worker.                               *)
(***************************************************************************)
\* market = self._pendingScans.get(); None only restarts the loop
ScannerGet ==
    /\ pc = "get"
    /\ pendingScans # <<>>
    /\ pendingScans' = Tail(pendingScans)
    /\ market' = Head(pendingScans)
    /\ pc' = IF Head(pendingScans) = NoMarket THEN LoopHead ELSE "clear"
    /\ UNCHANGED <<graphVars, ladderVars, orderVars>>
    /\ UNCHANGED <<env, settings, trading_enabled, stop, clock, pendingScansList, order_list, sequence_id, tmpSequences, sequences, order_sequence,
                   orders, sId, currentSequences, lastSequenceStarted, tasks, workers,
                   exchangeOrders, cbTmp, cbSeq, nextId, hist>>

\* the pending flag of the market left in place
Cleared_Kept(list, m) == list

\* arbitrage_worker, line 283: del self._pendingScansList[market.get_id()]
Cleared(list, m) == list \ {m}

\* with self._pendingScanMutex: del self._pendingScansList[market.get_id()]
\* (a missing key raises KeyError, which ends the thread)
ScannerClear ==
    /\ pc = "clear"
    /\ IF market \in pendingScansList
       THEN /\ pendingScansList' = Cleared(pendingScansList, market)
            /\ pc' = "check"
       ELSE /\ pc' = "crashed"
            /\ UNCHANGED pendingScansList
    /\ UNCHANGED <<graphVars, ladderVars, orderVars>>
    /\ UNCHANGED <<env, settings, trading_enabled, stop, clock, pendingScans, market, order_list, sequence_id, tmpSequences, sequences, order_sequence,
                   orders, sId, currentSequences, lastSequenceStarted, tasks, workers,
                   exchangeOrders, cbTmp, cbSeq, nextId, hist>>

\* The candidate c becomes the k-th: lines 307-347 and the except clause
Register(c) ==
    LET k == nextId + 1
        ids == {<<k, i>> : i \in 1..Len(c)}
        chains == parallelize_orders(c)
        r0 == [count |-> 0, oseq |-> order_sequence, sid |-> [o \in ids |-> 0] @@ sId,
               raised |-> SequentialOrders(settings.sequentialSequencesEnabled, chains)]
        r == RegisterChains(c, k, chains, 1, r0)
        h == [orders |-> [i \in 1..Len(c) |-> c[i].dep],
              unfunded |-> \E x \in 1..Len(chains) :
                              Len(chains[x]) > 0 /\ c[chains[x][1]].balance < c[chains[x][1]].amount,
              chained |-> \E x \in 1..Len(chains) : Len(chains[x]) > 1,
              admitted |-> ~r.raised,
              started |-> FALSE,
              st |-> [i \in 1..Len(c) |-> "new"]]
    IN  /\ nextId' = k
        /\ hist' = [hist EXCEPT ![k] = h]
        /\ sequences' = (k :> r.count) @@ sequences
        /\ sId' = r.sid
        /\ IF r.raised
           THEN \* cleaning up resources
                /\ orders' = [o \in ids |-> FALSE] @@ orders
                /\ order_sequence' = [key \in {<<0, k, i>> : i \in 1..Len(c)} |-> NoOrder] @@ r.oseq
                /\ pc' = LoopHead
                /\ UNCHANGED <<order_list, sequence_id>>
           ELSE /\ orders' = [o \in ids |-> TRUE] @@ orders
                /\ order_sequence' = r.oseq
                /\ order_list' = chains
                /\ sequence_id' = k
                /\ pc' = "dispatch"

\* The admission test, and the scan with its outcome: no solution, or a best one
ScannerScan ==
    /\ pc = "check"
    /\ IF can_scan(settings.multipleSequences, currentSequences, clock,
                   lastSequenceStarted, settings.timeBetweenSequences,
                   settings.maximumSequences)
       THEN \/ /\ pc' = LoopHead
               /\ UNCHANGED <<nextId, hist, sequences, sId, orders, order_sequence,
                              order_list, sequence_id>>
            \/ /\ env.solutions
               /\ nextId < MaxCandidates
               /\ \E c \in Candidates : Register(c)
       ELSE /\ pc' = LoopHead
            /\ UNCHANGED <<nextId, hist, sequences, sId, orders, order_sequence,
                           order_list, sequence_id>>
    /\ UNCHANGED <<graphVars, ladderVars, orderVars>>
    /\ UNCHANGED <<env, settings, trading_enabled, stop, clock, pendingScans,
                   pendingScansList, market, tmpSequences, currentSequences,
                   lastSequenceStarted, tasks, workers, exchangeOrders, cbTmp, cbSeq>>

\* execute_order for the first order of every chain, if trading is enabled
ScannerDispatch ==
    /\ pc = "dispatch"
    /\ LET heads == ChainHeads(sequence_id, order_list, 1)
       IN  IF trading_enabled
           THEN /\ tasks' = tasks \o heads
                /\ hist' = SetStatuses(hist, heads, "queued")
           ELSE UNCHANGED <<tasks, hist>>
    /\ pc' = "incr_load"
    /\ UNCHANGED <<graphVars, ladderVars, orderVars>>
    /\ UNCHANGED <<env, settings, trading_enabled, stop, clock, pendingScans,
                   pendingScansList, market, order_list, sequence_id,
                   tmpSequences, sequences, order_sequence, orders, sId,
                   currentSequences, lastSequenceStarted, workers, exchangeOrders,
                   cbTmp, cbSeq, nextId>>

\* self.lastSequenceStarted = time.time(); the read of self.currentSequences += 1
ScannerIncrLoad ==
    /\ pc = "incr_load"
    /\ lastSequenceStarted' = clock
    /\ tmpSequences' = currentSequences
    /\ pc' = "incr_store"
    /\ UNCHANGED <<graphVars, ladderVars, orderVars>>
    /\ UNCHANGED <<env, settings, trading_enabled, stop, clock, pendingScans,
                   pendingScansList, market, order_list, sequence_id, sequences,
                   order_sequence, orders, sId, currentSequences, tasks, workers,
                   exchangeOrders, cbTmp, cbSeq, nextId, hist>>

\* the write of self.currentSequences += 1
ScannerIncrStore ==
    /\ pc = "incr_store"
    /\ currentSequences' = tmpSequences + 1
    /\ hist' = [hist EXCEPT ![sequence_id].started = TRUE]
    /\ pc' = LoopHead
    /\ UNCHANGED <<graphVars, ladderVars, orderVars>>
    /\ UNCHANGED <<env, settings, trading_enabled, stop, clock, pendingScans,
                   pendingScansList, market, order_list, sequence_id,
                   tmpSequences, sequences, order_sequence, orders, sId,
                   lastSequenceStarted, tasks, workers, exchangeOrders, cbTmp, cbSeq,
                   nextId>>

(***************************************************************************)
(* The request Worker (Worker.run) and the exchange.                       *)
(***************************************************************************)
\* an exception of the request that ends the Worker
Caught_Ends(run) == "exited"

\* Worker.run, lines 46-51: `except Exception` logs, and `run` stays as it is
Caught(run) == run

\* One task: a shutdown task ends the Worker; a request task is sent, and either
\* reaches the exchange or raises inside the Worker, which logs and goes on.
WorkerRun(w) ==
    /\ workers[w] = "running"
    /\ tasks # <<>>
    /\ tasks' = Tail(tasks)
    /\ LET task == Head(tasks)
       IN  IF task = Shutdown
           THEN /\ workers' = [workers EXCEPT ![w] = "exited"]
                /\ UNCHANGED <<exchangeOrders, hist>>
           ELSE \/ /\ exchangeOrders' = exchangeOrders \cup {task}
                   /\ hist' = SetStatus(hist, task, "sent")
                   /\ UNCHANGED workers
                \/ /\ env.failures
                   /\ hist' = SetStatus(hist, task, "lost")
                   /\ workers' = [workers EXCEPT ![w] = Caught(workers[w])]
                   /\ UNCHANGED exchangeOrders
    /\ UNCHANGED <<graphVars, ladderVars, orderVars>>
    /\ UNCHANGED <<env, settings, trading_enabled, stop, clock, pendingScans,
                   pendingScansList, pc, market, order_list, sequence_id,
                   tmpSequences, sequences, order_sequence, orders, sId,
                   currentSequences, lastSequenceStarted, cbTmp, cbSeq, nextId>>

Statuses == {"PENDING", "COMPLETED", "REJECTED"}
Terminal == {"COMPLETED", "REJECTED"}

\* the count of a sequence taken down by two
Decrement_Twice(status, count) == count - 2

\* on_order_update, line 396: what a status does to the sequence's count
Decrement(status, count) == count - 1

\* the count of a sequence taken down by every status
Counted_Always(status) == TRUE

\* on_order_update, line 381: the statuses for which lines 393-402, the count
\* of the sequence, are run (they are part of the COMPLETED branch)
Counted(status) == status = "COMPLETED"

\* App.on_order_update(order, status), called by an account stream, up to the
\* read of self.currentSequences -= 1 inside sequencesMutex
on_order_update(o, status) ==
    /\ ~stop
    /\ o \in exchangeOrders
    /\ cbSeq = 0
    /\ LET key == <<0, o[1], o[2]>>
           next == IF status = "COMPLETED" /\ key \in DOMAIN order_sequence
                   THEN order_sequence[key] ELSE NoOrder
           submit == next # NoOrder /\ trading_enabled
           sid == sId[o]
           dec == Counted(status) /\ sid \in DOMAIN sequences
           count == IF dec THEN Decrement(status, sequences[sid]) ELSE 0
           h == IF status \in Terminal THEN SetStatus(hist, o, status) ELSE hist
       IN  /\ tasks' = IF submit THEN Append(tasks, next) ELSE tasks
           /\ hist' = IF submit THEN SetStatus(h, next, "queued") ELSE h
           /\ exchangeOrders' = IF status \in Terminal THEN exchangeOrders \ {o}
                                ELSE exchangeOrders
           /\ sequences' = IF dec THEN [sequences EXCEPT ![sid] = count] ELSE sequences
           /\ IF dec /\ count <= 0
              THEN /\ cbSeq' = sid
                   /\ cbTmp' = currentSequences
              ELSE UNCHANGED <<cbSeq, cbTmp>>
    /\ UNCHANGED <<graphVars, ladderVars, orderVars>>
    /\ UNCHANGED <<env, settings, trading_enabled, stop, clock, pendingScans,
                   pendingScansList, pc, market, order_list, sequence_id,
                   tmpSequences, order_sequence, orders, sId, currentSequences,
                   lastSequenceStarted, workers, nextId>>

\* the write of self.currentSequences -= 1, and del self.sequences[sequence_id]
SequenceCompleted ==
    /\ cbSeq # 0
    /\ currentSequences' = cbTmp - 1
    /\ sequences' = [x \in DOMAIN sequences \ {cbSeq} |-> sequences[x]]
    /\ cbSeq' = 0
    /\ cbTmp' = 0
    /\ UNCHANGED <<graphVars, ladderVars, orderVars>>
    /\ UNCHANGED <<env, settings, trading_enabled, stop, clock, pendingScans,
                   pendingScansList, pc, market, order_list, sequence_id,
                   tmpSequences, order_sequence, orders, sId, lastSequenceStarted,
                   tasks, workers, exchangeOrders, nextId, hist>>

Next ==
    \/ \E m \in Markets : schedule_market_scan(m)
    \/ activate
    \/ Tick
    \/ ScannerGet
    \/ ScannerClear
    \/ ScannerScan
    \/ ScannerDispatch
    \/ ScannerIncrLoad
    \/ ScannerIncrStore
    \/ \E w \in 1..NumWorkers : WorkerRun(w)
    \/ \E o \in exchangeOrders, status \in Statuses : on_order_update(o, status)
    \/ SequenceCompleted

Spec == Init /\ [][Next]_vars

\* The bot when a request may fail before it reaches the exchange
SpecFailures == InitFailures /\ [][Next]_vars

\* The ids of the orders of the candidates
OrderIds == {<<k, i>> : k \in 1..MaxCandidates, i \in 1..(2 * MaxTrades - 1)}

\* The account stream reports the terminal status of order o
TerminalUpdate(o) ==
    \/ on_order_update(o, "COMPLETED")
    \/ on_order_update(o, "REJECTED")

\* A step of the scanner thread
Scanner ==
    \/ ScannerGet
    \/ ScannerClear
    \/ ScannerScan
    \/ ScannerDispatch
    \/ ScannerIncrLoad
    \/ ScannerIncrStore

\* The bot with App.exit
NextExit ==
    \/ Next
    \/ exit

\* The scanner thread and every Worker process run whenever they can: a thread
\* blocks only in Queue.get() on an empty queue
SpecExit ==
    /\ InitExit
    /\ [][NextExit]_vars
    /\ WF_vars(Scanner)
    /\ \A w \in 1..NumWorkers : WF_vars(WorkerRun(w))

\* The bot with the settings as shipped, when the scanner, every Worker and the
\* adapter thread inside sequencesMutex run whenever they can, and every order
\* at the exchange gets its terminal status
SpecLive ==
    /\ InitExit
    /\ [][Next]_vars
    /\ WF_vars(Scanner)
    /\ \A w \in 1..NumWorkers : WF_vars(WorkerRun(w))
    /\ WF_vars(SequenceCompleted)
    /\ \A o \in OrderIds : SF_vars(TerminalUpdate(o))

\* The scan queue between the market streams, the scanner and App.exit
NextQueue ==
    \/ \E m \in Markets : schedule_market_scan(m)
    \/ exit
    \/ Tick
    \/ ScannerGet
    \/ ScannerClear
    \/ ScannerScan

SpecQueue == InitQueue /\ [][NextQueue]_vars

\* The scan queue with a scanner thread that runs whenever it can
SpecCoalesce == InitQueue /\ [][NextQueue]_vars /\ WF_vars(Scanner)

(***************************************************************************)
(* Startup: the exchanges create their markets, App.load_exchanges adds    *)
(* the deposits, and generate_all_paths enumerates the paths.              *)
(***************************************************************************)
\* fetch_and_create_markets for one market of exchange e, base b and quote q
create_market(e, b, q) ==
    /\ phase = "markets"
    /\ b # q
    /\ edges' = add_neighbour_currency(edges, <<b, e>>, <<q, e>>,
                    [base |-> <<b, e>>, quote |-> <<q, e>>, deposit |-> FALSE])
    /\ UNCHANGED <<phase, start_currency, max_depth, paths>>
    /\ UNCHANGED <<appVars, ladderVars, orderVars>>

\* Exchange.add_deposit(currency, exchange) of exchange e: a missing currency
\* raises KeyError, which ends the startup.  App.load_exchanges adds deposits
\* from Poloniex (the later exchange) to Binance only.
add_deposit(e, c, target) ==
    /\ phase \in {"markets", "deposits"}
    /\ e # target
    /\ Created(edges, <<c, e>>)
    /\ Created(edges, <<c, target>>)
    /\ LET mkt == [base |-> <<c, e>>, quote |-> <<c, target>>, deposit |-> TRUE]
       IN  /\ bidHeap' = [bidHeap EXCEPT ![mkt] = update_price(@, 1, DepositSize, TRUE)]
           /\ askHeap' = [askHeap EXCEPT ![mkt] = update_price(@, 1, DepositSize, FALSE)]
           /\ edges' = add_neighbour_currency(edges, <<c, e>>, <<c, target>>, mkt)
    /\ phase' = "deposits"
    /\ UNCHANGED <<start_currency, max_depth, paths, lastUpdate>>
    /\ UNCHANGED <<appVars, orderVars>>

\* paths = generate_all_paths(start_currency, max_depth)
generate_paths(s, d) ==
    /\ phase # "paths"
    /\ start_currency' = s
    /\ max_depth' = d
    /\ paths' = generate_all_paths(edges, s, d)
    /\ phase' = "paths"
    /\ UNCHANGED edges
    /\ UNCHANGED <<appVars, ladderVars, orderVars>>

NextPaths ==
    \/ \E e \in Exchanges, b, q \in Codes : create_market(e, b, q)
    \/ \E e, target \in Exchanges, c \in Codes : e > target /\ add_deposit(e, c, target)
    \/ \E s \in Vertices, d \in 1..MaxDepth : generate_paths(s, d)

SpecPaths == InitStartup /\ [][NextPaths]_vars

(***************************************************************************)
(* The market stream of one Market: ladder updates and resets.             *)
(***************************************************************************)
\* Market.update_bid_price(price, quantity) of market m
update_bid_price(m, price, quantity) ==
    /\ <<m, "bid">> \in env.books
    /\ price \in env.prices
    /\ quantity \in env.sizes
    /\ bidHeap' = [bidHeap EXCEPT ![m] = update_price(@, price, quantity, TRUE)]
    /\ lastUpdate' = IF env.record
                     THEN [op |-> "bid", market |-> m, price |-> price,
                           quantity |-> quantity, before |-> bidHeap[m]]
                     ELSE NoUpdate
    /\ generated' = NotGenerated
    /\ UNCHANGED askHeap
    /\ UNCHANGED <<rules, takerFee, order, outcome>>
    /\ UNCHANGED <<appVars, graphVars>>

\* Market.update_ask_price(price, quantity) of market m
update_ask_price(m, price, quantity) ==
    /\ <<m, "ask">> \in env.books
    /\ price \in env.prices
    /\ quantity \in env.sizes
    /\ askHeap' = [askHeap EXCEPT ![m] = update_price(@, price, quantity, FALSE)]
    /\ lastUpdate' = IF env.record
                     THEN [op |-> "ask", market |-> m, price |-> price,
                           quantity |-> quantity, before |-> askHeap[m]]
                     ELSE NoUpdate
    /\ generated' = NotGenerated
    /\ UNCHANGED bidHeap
    /\ UNCHANGED <<rules, takerFee, order, outcome>>
    /\ UNCHANGED <<appVars, graphVars>>

\* Market.reset_prices of market m
reset_prices(m) ==
    /\ \E side \in {"bid", "ask"} : <<m, side>> \in env.books
    /\ askHeap' = [askHeap EXCEPT ![m] = <<>>]
    /\ bidHeap' = [bidHeap EXCEPT ![m] = <<>>]
    /\ lastUpdate' = IF env.record THEN [NoUpdate EXCEPT !.op = "reset", !.market = m]
                     ELSE NoUpdate
    /\ generated' = NotGenerated
    /\ UNCHANGED <<rules, takerFee, order, outcome>>
    /\ UNCHANGED <<appVars, graphVars>>

NextBook ==
    \/ \E m \in AllMarkets, price \in Prices, quantity \in Sizes :
          update_bid_price(m, price, quantity)
    \/ \E m \in AllMarkets, price \in Prices, quantity \in Sizes :
          update_ask_price(m, price, quantity)
    \/ \E m \in AllMarkets : reset_prices(m)

SpecBook == InitBook /\ [][NextBook]_vars

(***************************************************************************)
(* Order.make_valid on an order, called once and called again.             *)
(***************************************************************************)
MaxCalls == 2

\* order.make_valid() whose loop has ended with the locals s and has given r:
\* the outcome records the locals at the end of the loop
MadeValid(s, r) ==
    /\ order' = r.order
    /\ outcome' = Append(outcome, [raised |-> r.raised, quantity |-> r.order.quantity,
                                   iterations |-> s.iterations, changes |-> s.changes,
                                   impossible |-> s.raised])

MakeValidEnded(s) == MadeValid(s, LoopEnd(s))

\* order.make_valid()
make_valid_call ==
    /\ Len(outcome) < MaxCalls
    /\ \A i \in 1..Len(outcome) : ~outcome[i].raised
    /\ MakeValidEnded(MakeValidLoop(rules[order.market], LoopStart(order), MAX))
    /\ UNCHANGED <<rules, takerFee, generated>>
    /\ UNCHANGED <<appVars, graphVars, ladderVars>>

NextRules == make_valid_call

SpecRules == InitRules /\ [][NextRules]_vars

\* Order.make_valid on a market whose only rule is a SizeRule
SpecSizeRule == InitSizeRule /\ [][NextRules]_vars

\* Order.make_valid on a market with two SizeRules of neighbouring steps
SpecLongRun == InitLongRun /\ [][NextRules]_vars

\* rule.make_valid(order) has given r: the outcome records the size the order
\* had at the call
RuleApplied(r) ==
    /\ order' = r.order
    /\ outcome' = Append(outcome, [raised |-> r.raised, quantity |-> r.order.quantity,
                                   size |-> order.quantity, changes |-> r.changes])

\* rule.make_valid(order), once, for the first rule of the market of the order
Rule_make_valid_call ==
    /\ outcome = <<>>
    /\ RuleApplied(Rule_make_valid(rules[order.market][1], order))
    /\ UNCHANGED <<rules, takerFee, generated>>
    /\ UNCHANGED <<appVars, graphVars, ladderVars>>

NextStep == Rule_make_valid_call

\* SizeRule.make_valid, once, on an order
SpecStep == InitSizeRule /\ [][NextStep]_vars

(***************************************************************************)
(* The amounts of an order: read, and set by set_target_amount.            *)
(***************************************************************************)
\* What the getters of o give after a call
Amounts(o, call, raised, amount, include_fees) ==
    [call |-> call, raised |-> raised, quantity |-> o.quantity, amount |-> amount,
     include_fees |-> include_fees, source |-> get_source_amount(o),
     target |-> get_target_amount(o, FALSE), net |-> get_target_amount(o, TRUE)]

\* order.get_source_amount(), order.get_target_amount() and
\* order.get_target_amount(include_fees=True)
get_amounts_call ==
    /\ outcome = <<>>
    /\ outcome' = <<Amounts(order, "get", FALSE, D(0), FALSE)>>
    /\ UNCHANGED <<rules, takerFee, generated, order>>
    /\ UNCHANGED <<appVars, graphVars, ladderVars>>

\* order.set_target_amount(amount, include_fees), and the getters after it
set_target_amount_call(amount, include_fees) ==
    /\ outcome = <<>>
    /\ LET r == set_target_amount(order, amount, include_fees)
       IN  /\ order' = r.order
           /\ outcome' = <<Amounts(r.order, "set", r.raised, amount, include_fees)>>
    /\ UNCHANGED <<rules, takerFee, generated>>
    /\ UNCHANGED <<appVars, graphVars, ladderVars>>

NextAmounts ==
    \/ get_amounts_call
    \/ \E a \in 1..MaxAmount, f \in BOOLEAN : set_target_amount_call(D(a), f)

SpecAmounts == InitAmounts /\ [][NextAmounts]_vars

(***************************************************************************)
(* The scan of a path: Path.generate_orders on the ladders as they are.    *)
(***************************************************************************)
\* path.generate_orders(initial_amount) for the i-th path, in the scan that
\* follows a ladder update
generate_orders_call(i, initial_amount) ==
    /\ generated = NotGenerated
    /\ LET g == generate_orders(PathOrders(edges, paths[i]), initial_amount)
       IN  generated' = [path |-> i, initial_amount |-> initial_amount, none |-> g.none,
                         orders |-> g.orders, revised |-> g.reduced > 0,
                         reduced |-> g.reduced]
    /\ UNCHANGED <<rules, takerFee, order, outcome>>
    /\ UNCHANGED <<appVars, graphVars, ladderVars>>

\* Market._paths of market m (Path.add_currency, line 39): the paths with a leg
\* on m, in the order in which they were created
MarketPaths(m) ==
    SelectSeq([i \in 1..Len(paths) |-> i],
              LAMBDA i : \E k \in 1..(Len(paths[i]) - 1) :
                            PathOrders(edges, paths[i])[k].market = m)

\* scan_paths, line 196: the profit of the orders aux (the division raises when
\* the first order needs nothing)
Profit(aux) ==
    DSub(DDiv(get_target_amount(aux[Len(aux)], TRUE), get_source_amount(aux[1])), D(1))

\* Market.scan_paths, lines 190-199, from the j-th of the paths ps on: seen
\* holds, for the properties, what generate_orders gave for each path so far
RECURSIVE ScanFrom(_, _, _, _, _, _)
\* lines 193-199: generate_orders has given aux for the j-th path
PathScanned(ps, j, initial_amount, min_profit, result, seen, aux) ==
    IF aux.none
    THEN ScanFrom(ps, j + 1, initial_amount, min_profit, result,
                  Append(seen, [path |-> ps[j], none |-> TRUE]))
    ELSE IF DIsZero(get_source_amount(aux.orders[1]))
    THEN [raised |-> TRUE, result |-> result,
          seen |-> Append(seen, [path |-> ps[j], none |-> FALSE])]
    ELSE ScanFrom(ps, j + 1, initial_amount, min_profit,
                  IF DLe(min_profit, Profit(aux.orders))
                  THEN Append(result, [profit |-> Profit(aux.orders),
                                       orders |-> aux.orders, path |-> ps[j]])
                  ELSE result,
                  Append(seen, [path |-> ps[j], none |-> FALSE]))

ScanFrom(ps, j, initial_amount, min_profit, result, seen) ==
    IF j > Len(ps) THEN [raised |-> FALSE, result |-> result, seen |-> seen]
    ELSE PathScanned(ps, j, initial_amount, min_profit, result, seen,
                     generate_orders(PathOrders(edges, paths[ps[j]]), initial_amount))

\* Market.scan_paths(initial_amount, min_profit) of market m
scan_paths(m, initial_amount, min_profit) ==
    ScanFrom(MarketPaths(m), 1, initial_amount, min_profit, <<>>, <<>>)

\* the scanner taking the last solution, whatever its profit
Highest_Last(solutions, j, highest_profit, highest_solution) == Len(solutions)

\* arbitrage_worker, lines 295-304: the index of highest_solution in solutions
\* (0 is None), from the j-th solution on
RECURSIVE Highest(_, _, _, _)
Highest(solutions, j, highest_profit, highest_solution) ==
    IF j > Len(solutions) THEN highest_solution
    ELSE IF DLt(highest_profit, solutions[j].profit)
         THEN Highest(solutions, j + 1, solutions[j].profit, j)
         ELSE Highest(solutions, j + 1, highest_profit, highest_solution)

\* The scan of market m by the scanner, lines 293-304, with what it gave
Scanned(m, initial_amount, min_profit, scan) ==
    [market |-> m, initial_amount |-> initial_amount, min_profit |-> min_profit,
     raised |-> scan.raised, solutions |-> scan.result, seen |-> scan.seen,
     highest |-> IF scan.raised THEN 0 ELSE Highest(scan.result, 1, D(-1), 0)]

scan_call(m, initial_amount, min_profit) ==
    /\ outcome = <<>>
    /\ outcome' = <<Scanned(m, initial_amount, min_profit,
                            scan_paths(m, initial_amount, min_profit))>>
    /\ UNCHANGED <<rules, takerFee, generated, order>>
    /\ UNCHANGED <<appVars, graphVars, ladderVars>>

\* The order lists given to parallelize_orders on its own: as Candidates, but
\* with up to MaxOrders orders
OrderLists ==
    {c \in UNION {[1..n -> TradeOrders \cup DepositOrders] : n \in 1..MaxOrders} :
        /\ ~c[1].dep
        /\ ~c[Len(c)].dep
        /\ \A i \in 1..(Len(c) - 1) : ~(c[i].dep /\ c[i + 1].dep)}

\* self.parallelize_orders(os), with what it returned
parallelize_orders_call(os) ==
    /\ outcome = <<>>
    /\ outcome' = <<[orders |-> os, result |-> parallelize_orders(os)]>>
    /\ UNCHANGED <<rules, takerFee, generated, order>>
    /\ UNCHANGED <<appVars, graphVars, ladderVars>>

\* App.parallelize_orders on the order lists, in a program where nothing else happens
InitChains ==
    /\ env = Quiet
    /\ settings = DefaultSettings
    /\ InitApp
    /\ InitGraph
    /\ InitLadder
    /\ InitOrder

SpecChains == InitChains /\ [][\E os \in OrderLists : parallelize_orders_call(os)]_vars

\* The books move until the scanner scans a market
NextScan ==
    \/ /\ outcome = <<>>
       /\ \E m \in AllMarkets, price \in Prices, quantity \in Sizes :
             update_bid_price(m, price, quantity)
    \/ /\ outcome = <<>>
       /\ \E m \in AllMarkets, price \in Prices, quantity \in Sizes :
             update_ask_price(m, price, quantity)
    \/ \E m \in {BookMarket, SecondMarket}, a \in {1, MaxAmount}, p \in {0, 1} :
          scan_call(m, D(a), D(p))

SpecScan == InitScan /\ [][NextScan]_vars

NextOrders ==
    \/ \E m \in AllMarkets, price \in Prices, quantity \in Sizes :
          update_bid_price(m, price, quantity)
    \/ \E m \in AllMarkets, price \in Prices, quantity \in Sizes :
          update_ask_price(m, price, quantity)
    \/ \E i \in 1..Len(paths), a \in 1..MaxAmount : generate_orders_call(i, D(a))

SpecOrders == InitStarted /\ [][NextOrders]_vars

\* The same on the triangle of one exchange
SpecTriangle == InitTriangle /\ [][NextOrders]_vars

(***************************************************************************)
(* Properties of the scanner and the executor.                             *)
(***************************************************************************)
TypeOK ==
    /\ pc \in {"get", "clear", "check", "dispatch", "incr_load", "incr_store",
               "exited", "crashed"}
    /\ pendingScansList \subseteq Markets
    /\ currentSequences \in Int

\* The trading orders of candidate k (a deposit order is never submitted) that
\* have no COMPLETED or REJECTED status yet
Open(k) == {i \in 1..Len(hist[k].st) : ~hist[k].orders[i] /\ hist[k].st[i] \notin Terminal}

\* An admitted sequence is in flight while one of its orders is open
InFlight(k) == hist[k].admitted /\ Open(k) # {}

\* C1: currentSequences never exceeds maximumSequences (when multipleSequences
\* is set and maximumSequences > 0), and never exceeds 1 when multipleSequences
\* is not set.
C1_AdmissionBound ==
    /\ (settings.multipleSequences /\ settings.maximumSequences > 0)
           => currentSequences <= settings.maximumSequences
    /\ ~settings.multipleSequences => currentSequences <= 1

\* reached: the bound is met while a second scan request is being checked
C1_Witness ==
    /\ settings.multipleSequences
    /\ settings.maximumSequences = 1
    /\ currentSequences = 1
    /\ pc = "check"
    /\ nextId = 1

\* C2: with multipleSequences unset, while an admitted sequence is in flight no
\* other sequence is admitted: at no time are two admitted sequences in flight.
C2_OneInFlight ==
    ~settings.multipleSequences =>
        \A k1, k2 \in 1..MaxCandidates : (InFlight(k1) /\ InFlight(k2)) => k1 = k2

\* reached: an order of the first sequence is open at the exchange, the
\* sequence is counted, and the scanner decides on the next scan request
C2_Witness ==
    /\ ~settings.multipleSequences
    /\ pc = "check"
    /\ nextId = 1
    /\ currentSequences = 1
    /\ InFlight(1)
    /\ \E i \in 1..Len(hist[1].st) : hist[1].st[i] = "sent" /\ <<1, i>> \in exchangeOrders

\* The orders of candidate k that were handed to the request queue
Submitted(k) == {i \in 1..Len(hist[k].st) : hist[k].st[i] # "new"}

\* ... and those of them still on their way: in the queue, or at the exchange
Outstanding(k) == {i \in 1..Len(hist[k].st) : hist[k].st[i] \in {"queued", "sent"}}

\* The COMPLETED and REJECTED events received for candidate k (the adapter
\* forgets an order with its terminal event, so an order has at most one)
TerminalEvents(k) == Cardinality({i \in 1..Len(hist[k].st) : hist[k].st[i] \in Terminal})

\* The trading orders of candidate k, which are the orders the executor counts
Legs(k) == Cardinality({i \in 1..Len(hist[k].orders) : ~hist[k].orders[i]})

\* C3: for a dispatched sequence whose submitted orders have all received their
\* terminal status, so that no further event can arrive, the number of COMPLETED
\* plus REJECTED events equals the sequence length.
C3_EventsEqualLength ==
    \A k \in 1..MaxCandidates :
        (Submitted(k) # {} /\ Outstanding(k) = {}) => TerminalEvents(k) = Legs(k)

\* reached: an order of a chain was REJECTED, its successor was never handed
\* to the request queue, and nothing of the sequence is on its way
C3_Reached ==
    \E k \in 1..MaxCandidates :
        /\ Outstanding(k) = {}
        /\ \E i \in 1..(Len(hist[k].st) - 1) :
              hist[k].st[i] = "REJECTED" /\ hist[k].st[i + 1] = "new"
        /\ TerminalEvents(k) < Legs(k)

\* C4: the scan queue holds at most one entry per market, every queued market
\* is flagged pending, and the scanner's removal never finds the key missing.
C4_Coalesced ==
    /\ \A m \in Markets :
          Cardinality({i \in 1..Len(pendingScans) : pendingScans[i] = m}) <= 1
    /\ \A i \in 1..Len(pendingScans) :
          pendingScans[i] # NoMarket => pendingScans[i] \in pendingScansList
    /\ pc = "clear" => market \in pendingScansList
    /\ pc # "crashed"

\* reached: the scanner has dequeued a market and not yet cleared its flag, while
\* every other market is queued behind it
C4_Witness ==
    /\ pc = "clear"
    /\ pendingScansList = Markets
    /\ Len(pendingScans) = NumMarkets - 1

\* C5: a candidate with a chain whose first order cannot be executed is
\* rejected: it is not admitted, none of its orders is submitted, and the
\* scanner does not reach the update of lastSequenceStarted and
\* currentSequences for it.
C5_UnfundedRejected ==
    \A k \in 1..MaxCandidates :
        hist[k].unfunded =>
            /\ ~hist[k].admitted
            /\ ~hist[k].started
            /\ Submitted(k) = {}
            /\ ~(pc \in {"dispatch", "incr_load", "incr_store"} /\ sequence_id = k)

\* reached: a candidate with a deposit whose second chain cannot start was
\* rejected, and the scanner is back at its queue
C5_Witness ==
    /\ pc = "get"
    /\ \E k \in 1..MaxCandidates :
          /\ hist[k].unfunded
          /\ \E i \in 1..Len(hist[k].orders) : hist[k].orders[i]
          /\ currentSequences = 0
          /\ lastSequenceStarted = 0

(***************************************************************************)
(* Properties of the path enumerator.                                      *)
(***************************************************************************)
\* C6: every path returned by generate_all_paths starts and ends at the same
\* vertex, the start currency S, and repeats no intermediate vertex.
C6_SimpleCycles ==
    \A i \in 1..Len(paths) :
        LET p == paths[i]
        IN  /\ p[1] = start_currency
            /\ p[Len(p)] = p[1]
            /\ \A a, b \in 2..(Len(p) - 1) : a # b => p[a] # p[b]

\* reached: a returned path that ends at the code of S on another exchange
C6_Reached ==
    \E i \in 1..Len(paths) :
        /\ get_code(paths[i][Len(paths[i])]) = get_code(start_currency)
        /\ paths[i][Len(paths[i])] # start_currency

(***************************************************************************)
(* Properties of the price ladders.                                        *)
(***************************************************************************)
\* The positions of a ladder that hold the price
At(heap, price) == {i \in 1..Len(heap) : get_score(heap[i]) = price}

\* C7: for every market, get_bid_price returns the entry with the highest
\* price among the bid entries and get_ask_price the entry with the lowest
\* price among the ask entries, and each returns none when its side is empty.
C7_BestPrices ==
    \A m \in AllMarkets :
        /\ IF bidHeap[m] = <<>> THEN get_bid_price(bidHeap[m]) = NoItem
           ELSE /\ \E i \in 1..Len(bidHeap[m]) : get_bid_price(bidHeap[m]) = bidHeap[m][i]
                /\ \A i \in 1..Len(bidHeap[m]) :
                      get_score(bidHeap[m][i]) <= get_score(get_bid_price(bidHeap[m]))
        /\ IF askHeap[m] = <<>> THEN get_ask_price(askHeap[m]) = NoItem
           ELSE /\ \E i \in 1..Len(askHeap[m]) : get_ask_price(askHeap[m]) = askHeap[m][i]
                /\ \A i \in 1..Len(askHeap[m]) :
                      get_score(askHeap[m][i]) >= get_score(get_ask_price(askHeap[m]))

\* reached: the best of three bids was removed and two bids are left
C7_Witness ==
    /\ lastUpdate.op = "bid"
    /\ lastUpdate.quantity = 0
    /\ Len(lastUpdate.before) = 3
    /\ get_score(lastUpdate.before[1]) = lastUpdate.price
    /\ Len(bidHeap[lastUpdate.market]) = 2
    /\ get_score(bidHeap[lastUpdate.market][1]) > get_score(bidHeap[lastUpdate.market][2])

\* C8: after update(price, size) on a side: with size = 0 the side has no entry
\* at that price; with size > 0 it has exactly one entry at that price, with
\* that size; the entries at the other prices are as they were.
C8_UpdateSetsEntry ==
    lastUpdate.op \in {"bid", "ask"} =>
        LET heap == IF lastUpdate.op = "bid" THEN bidHeap[lastUpdate.market]
                    ELSE askHeap[lastUpdate.market]
            here == At(heap, lastUpdate.price)
        IN  /\ lastUpdate.quantity = 0 => here = {}
            /\ lastUpdate.quantity > 0 =>
                  /\ Cardinality(here) = 1
                  /\ \A i \in here : get_item(heap[i]) = lastUpdate.quantity
            /\ \A p \in Prices \ {lastUpdate.price} :
                  /\ Cardinality(At(heap, p)) = Cardinality(At(lastUpdate.before, p))
                  /\ {get_item(heap[i]) : i \in At(heap, p)}
                         = {get_item(lastUpdate.before[i]) : i \in At(lastUpdate.before, p)}

\* reached: an update with size 0 for a price the side did not hold
C8_Reached ==
    /\ lastUpdate.op \in {"bid", "ask"}
    /\ lastUpdate.quantity = 0
    /\ At(lastUpdate.before, lastUpdate.price) = {}

(***************************************************************************)
(* Properties of the orders and the rules.                                 *)
(***************************************************************************)
\* C9: in every order list returned by Path.generate_orders, the target
\* currency vertex of an order is the source currency vertex of the next order.
C9_OrdersChain ==
    (generated.path # 0 /\ ~generated.none) =>
        \A i \in 1..(Len(generated.orders) - 1) :
            get_target_currency(generated.orders[i])
                = get_source_currency(generated.orders[i + 1])

\* reached: a returned list of three orders with a deposit in the middle whose
\* first orders were revised after the last one was reduced
C9_Witness ==
    /\ generated.path # 0
    /\ ~generated.none
    /\ generated.revised
    /\ Len(generated.orders) = 3
    /\ is_deposit(generated.orders[2])
    /\ generated.orders[1].side = "BUY"
    /\ generated.orders[3].side = "SELL"

\* C10: make_valid is a fixed point: when a call of make_valid has returned
\* normally, a second call right after it returns normally too and leaves the
\* quantity as the first call left it.
C10_FixedPoint ==
    Len(outcome) = 2 =>
        /\ ~outcome[2].raised
        /\ outcome[2].quantity = outcome[1].quantity

\* reached: the first call returned normally and the second call raised
C10_Reached ==
    /\ Len(outcome) = 2
    /\ ~outcome[1].raised
    /\ outcome[2].raised

(***************************************************************************)
(* Completeness of the path enumerator.                                    *)
(***************************************************************************)
\* The simple cycles of k legs from the start currency: the start, k - 1
\* different vertices other than the start, and the start again, each joined
\* to the next by an edge, the first of which is not a deposit
SimpleCycles(k) ==
    {p \in {<<start_currency>> \o mid \o <<start_currency>> :
                mid \in [1..(k - 1) -> Vertices \ {start_currency}]} :
        /\ \A a, b \in 2..k : a # b => p[a] # p[b]
        /\ \A j \in 1..k : /\ edges[p[j]][get_code(p[j + 1])] # NoEdge
                             /\ edges[p[j]][get_code(p[j + 1])].currency = p[j + 1]
        /\ ~edges[p[1]][get_code(p[2])].market.deposit}

\* C15: generate_all_paths(S, max_depth) returns every simple cycle from S of
\* at most max_depth legs whose first leg is not a deposit.
C15_Complete ==
    phase = "paths" =>
        \A k \in 2..max_depth : \A p \in SimpleCycles(k) :
            \E i \in 1..Len(paths) : paths[i] = p

\* reached: a simple cycle of max_depth legs that was not returned
C15_Reached ==
    /\ phase = "paths"
    /\ max_depth >= 2
    /\ \E p \in SimpleCycles(max_depth) : \A i \in 1..Len(paths) : paths[i] # p

(***************************************************************************)
(* Properties of the amounts of an order.                                  *)
(***************************************************************************)
\* C11: a BUY order needs quantity x price and gives quantity before fees; a
\* SELL order needs quantity and gives quantity x price before fees; with the
\* fees the target amount is the one before fees times (1 - taker fee).
C11_Amounts ==
    \A i \in 1..Len(outcome) :
        outcome[i].call = "get" =>
            /\ order.side = "BUY" =>
                  /\ outcome[i].source = DMul(order.quantity, order.price)
                  /\ outcome[i].target = order.quantity
            /\ order.side = "SELL" =>
                  /\ outcome[i].source = order.quantity
                  /\ outcome[i].target = DMul(order.quantity, order.price)
            /\ outcome[i].net
                  = DMul(outcome[i].target, DSub(D(1), takerFee[order.market]))

\* reached: the amounts of a SELL order on a market with a taker fee were read
C11_Witness ==
    /\ Len(outcome) = 1
    /\ outcome[1].call = "get"
    /\ order.side = "SELL"
    /\ ~DIsZero(order.price)
    /\ ~DIsZero(takerFee[order.market])
    /\ outcome[1].net # outcome[1].target

\* C12: on a market without rules, after set_target_amount(x, include_fees =
\* false) has returned normally the target amount of the order is x; the source
\* amount is x times the price for BUY and x divided by the price for SELL.
C12_RoundTrip ==
    \A i \in 1..Len(outcome) :
        (outcome[i].call = "set" /\ ~outcome[i].include_fees /\ ~outcome[i].raised) =>
            /\ outcome[i].target = outcome[i].amount
            /\ order.side = "BUY" => outcome[i].source = DMul(outcome[i].amount, order.price)
            /\ order.side = "SELL" => outcome[i].source = DDiv(outcome[i].amount, order.price)

\* reached: set_target_amount(x, include_fees = false) returned normally on a
\* SELL order and left a target amount below x
C12_Reached ==
    /\ Len(outcome) = 1
    /\ outcome[1].call = "set"
    /\ ~outcome[1].include_fees
    /\ ~outcome[1].raised
    /\ order.side = "SELL"
    /\ rules[order.market] = <<>>
    /\ DLt(outcome[1].target, outcome[1].amount)

(***************************************************************************)
(* Properties of the rules.                                                *)
(***************************************************************************)
\* C13: on a market whose only rule is SizeRule(min_qty, max_qty, step), when
\* make_valid returns normally the quantity is at least min_qty (if min_qty > 0),
\* at most max_qty (if max_qty > 0) and a whole multiple of step (if step is
\* not zero); and make_valid raises when min_qty > 0 is above the maximum size
\* of the order.
C13_SizeRuleValid ==
    LET market_rules == rules[order.market]
        rule == market_rules[1]
        quantity == outcome[1].quantity
    IN  (Len(market_rules) = 1 /\ rule.type = "SizeRule" /\ Len(outcome) >= 1) =>
            /\ ~outcome[1].raised =>
                  /\ DLt(D(0), rule.minimum) => DLe(rule.minimum, quantity)
                  /\ DLt(D(0), rule.maximum) => DLe(quantity, rule.maximum)
                  /\ ~DIsZero(rule.step) =>
                        (quantity[1] * rule.step[2]) % (quantity[2] * rule.step[1]) = 0
            /\ (DLt(D(0), rule.minimum) /\ DLt(order.maximum, rule.minimum)) =>
                  outcome[1].raised

\* reached: make_valid returned normally under a SizeRule with a minimum, a
\* maximum and a step, with a quantity no order started with
C13_Witness ==
    /\ Len(outcome) = 1
    /\ ~outcome[1].raised
    /\ Len(rules[order.market]) = 1
    /\ rules[order.market][1].type = "SizeRule"
    /\ DLt(D(0), rules[order.market][1].minimum)
    /\ DLt(D(0), rules[order.market][1].maximum)
    /\ ~DIsZero(rules[order.market][1].step)
    /\ outcome[1].quantity \notin {o.quantity : o \in QuarterOrders}

(***************************************************************************)
(* Properties of the orders Path.generate_orders returns.                  *)
(***************************************************************************)
\* C14: the first order of every list that generate_orders(initial_amount)
\* returns needs at most initial_amount of its source currency, also when the
\* orders before a reduced one have been revised.
C14_FirstSourceBounded ==
    (generated.path # 0 /\ ~generated.none) =>
        DLe(get_source_amount(generated.orders[1]), generated.initial_amount)

\* reached: a returned list whose first order, a BUY, needs more than
\* initial_amount
C14_Reached ==
    /\ generated.path # 0
    /\ ~generated.none
    /\ generated.orders[1].side = "BUY"
    /\ DLt(generated.initial_amount, get_source_amount(generated.orders[1]))

\* An order of candidate k whose request failed on its way to the exchange
Lost(k) == {i \in 1..Len(hist[k].st) : hist[k].st[i] = "lost"}

\* Nothing is on its way: no request is queued, no order is open at the
\* exchange and no status callback is half done
Settled == tasks = <<>> /\ exchangeOrders = {} /\ cbTmp = 0 /\ cbSeq = 0

\* C16: an order whose request failed in the worker is treated as REJECTED by
\* the bookkeeping: once nothing is on its way any more, the remaining-leg
\* count of its sequence has been decremented for that order.
C16_FailureCounted ==
    Settled =>
        \A k \in 1..MaxCandidates :
            (hist[k].started /\ k \in DOMAIN sequences) =>
                sequences[k] <= Legs(k) - Cardinality(Lost(k))

\* reached: a request failed in the worker, nothing is on its way, and the
\* sequence still counts every one of its orders and is still counted as running
C16_Reached ==
    /\ Settled
    /\ \E k \in 1..MaxCandidates :
          /\ hist[k].started
          /\ Lost(k) # {}
          /\ k \in DOMAIN sequences
          /\ sequences[k] = Legs(k)
          /\ currentSequences > 0

C18_Admission ==
    pc = "check" =>
        (can_scan(settings.multipleSequences, currentSequences, clock,
                  lastSequenceStarted, settings.timeBetweenSequences,
                  settings.maximumSequences)
         <=> IF settings.multipleSequences
             THEN /\ (clock - lastSequenceStarted) >= settings.timeBetweenSequences
                  /\ (settings.maximumSequences = 0
                        \/ currentSequences < settings.maximumSequences)
             ELSE currentSequences = 0)

\* reached: the scanner decides on a request exactly timeBetweenSequences after
\* the last sequence was started, with room for another sequence, and refuses
C18_Reached ==
    /\ pc = "check"
    /\ settings.multipleSequences
    /\ lastSequenceStarted > 0
    /\ (clock - lastSequenceStarted) = settings.timeBetweenSequences
    /\ (settings.maximumSequences = 0 \/ currentSequences < settings.maximumSequences)
    /\ ~can_scan(settings.multipleSequences, currentSequences, clock,
                 lastSequenceStarted, settings.timeBetweenSequences,
                 settings.maximumSequences)

\* C19: when generate_orders has revised the orders before a reduced one, every
\* order before the last reduced one has been re-solved so that its target
\* amount, fees taken off, equals the source amount of the order that follows
\* it in the returned list.
C19_BackPropagated ==
    (generated.path # 0 /\ ~generated.none /\ generated.revised) =>
        \A i \in 1..(generated.reduced - 1) :
            get_target_amount(generated.orders[i], TRUE)
                = get_source_amount(generated.orders[i + 1])

\* reached: a returned list whose last order, a SELL, was reduced to the size
\* of its book and whose earlier orders were revised, where the order before
\* the last one still gives more than twice what the last one takes
C19_Reached ==
    /\ generated.path # 0
    /\ ~generated.none
    /\ generated.revised
    /\ generated.reduced = Len(generated.orders)
    /\ generated.orders[generated.reduced].side = "SELL"
    /\ DLt(DMul(D(2), get_source_amount(generated.orders[generated.reduced])),
           get_target_amount(generated.orders[generated.reduced - 1], TRUE))

\* C20: in every list that generate_orders returns, an order needs at most what
\* the order before it gives once the fees are taken off, also when the orders
\* before a reduced one have been revised.
C20_SourceCovered ==
    (generated.path # 0 /\ ~generated.none) =>
        \A i \in 1..(Len(generated.orders) - 1) :
            DLe(get_source_amount(generated.orders[i + 1]),
                get_target_amount(generated.orders[i], TRUE))

\* reached: a returned list of three trading orders, the last one reduced and
\* the first two revised, whose last order needs twice or more of what the
\* second one gives
C20_Reached ==
    /\ generated.path # 0
    /\ ~generated.none
    /\ generated.reduced = 3
    /\ Len(generated.orders) = 3
    /\ \A i \in 1..3 : ~is_deposit(generated.orders[i])
    /\ DLe(DMul(D(2), get_target_amount(generated.orders[2], TRUE)),
           get_source_amount(generated.orders[3]))
    /\ ~DIsZero(get_source_amount(generated.orders[3]))

\* The top of the book that an order of generate_orders is priced from
TopOf(o) ==
    IF o.side = "BUY" THEN get_ask_price(askHeap[o.market])
    ELSE get_bid_price(bidHeap[o.market])

\* C21: every order of a list that generate_orders returns has the price of
\* the top of its book, the ask for a BUY and the bid for a SELL, and a
\* quantity that is at most the size of that top and at most its own maximum.
C21_Capped ==
    (generated.path # 0 /\ ~generated.none) =>
        \A i \in 1..Len(generated.orders) :
            /\ TopOf(generated.orders[i]) # NoItem
            /\ generated.orders[i].price = D(get_score(TopOf(generated.orders[i])))
            /\ DLe(generated.orders[i].quantity, D(get_item(TopOf(generated.orders[i]))))
            /\ DLe(generated.orders[i].quantity, generated.orders[i].maximum)

\* reached: on markets with rules, a returned list whose last order was
\* reduced to the size of its book, whose first orders were revised and whose
\* first order has been through set_target_amount and the rules
C21_Witness ==
    /\ generated.path # 0
    /\ ~generated.none
    /\ generated.revised
    /\ rules[BookMarket] # <<>>
    /\ generated.orders[generated.reduced].quantity
           = D(get_item(TopOf(generated.orders[generated.reduced])))
    /\ generated.orders[1].minimum = generated.orders[1].quantity
    /\ ~DIsZero(generated.orders[1].quantity)

\* scan_paths, line 196, on the orders of a solution: what the last order gives,
\* fees taken off, over what the first order needs, minus one
ProfitOf(os) ==
    DSub(DDiv(get_target_amount(os[Len(os)], TRUE), get_source_amount(os[1])), D(1))

\* C22: the order list that the scanner picks out of a scan has a profit of at
\* least min_profit, and no solution of that scan has a strictly higher profit.
C22_BestProfit ==
    \A c \in 1..Len(outcome) :
        outcome[c].highest # 0 =>
            LET best == outcome[c].solutions[outcome[c].highest]
            IN  /\ DLe(outcome[c].min_profit, ProfitOf(best.orders))
                /\ \A j \in 1..Len(outcome[c].solutions) :
                      ~DLt(ProfitOf(best.orders), ProfitOf(outcome[c].solutions[j].orders))

\* reached: a scan with two solutions where the scanner picks the first, the
\* second having a strictly lower profit
C22_Witness ==
    /\ Len(outcome) = 1
    /\ Len(outcome[1].solutions) = 2
    /\ outcome[1].highest = 1
    /\ DLt(ProfitOf(outcome[1].solutions[2].orders),
           ProfitOf(outcome[1].solutions[1].orders))

\* C23: when generate_orders gives None for a path of the scanned market, the
\* path gives no solution, every path registered on the market is still
\* evaluated, and nothing is raised out of the loop of scan_paths.
C23_FailuresSwallowed ==
    \A c \in 1..Len(outcome) :
        \A k \in 1..Len(outcome[c].seen) :
            outcome[c].seen[k].none =>
                /\ \A j \in 1..Len(outcome[c].solutions) :
                      outcome[c].solutions[j].path # outcome[c].seen[k].path
                /\ ~outcome[c].raised
                /\ \A j \in 1..Len(MarketPaths(outcome[c].market)) :
                      \E x \in 1..Len(outcome[c].seen) :
                          outcome[c].seen[x].path = MarketPaths(outcome[c].market)[j]

\* reached: the first path of the market gave None, the orders of the second
\* need nothing of their first currency, the division of the profit raised and
\* the last path of the market was never evaluated
C23_Reached ==
    /\ Len(outcome) = 1
    /\ Len(outcome[1].seen) = 2
    /\ outcome[1].seen[1].none
    /\ ~outcome[1].seen[2].none
    /\ outcome[1].raised
    /\ Len(MarketPaths(outcome[1].market)) = 3

\* The market of the k-th leg of path p (Path.add_currency)
LegMarket(p, k) == edges[p[k]][get_code(p[k + 1])].market

\* C24: no path returned by generate_all_paths has a deposit as its first leg.
C24_NoDepositFirst ==
    \A i \in 1..Len(paths) : ~LegMarket(paths[i], 1).deposit

\* reached: from a start currency that has a deposit edge, a returned path
\* with a deposit as a later leg
C24_Witness ==
    /\ start_currency # NoVertex
    /\ \E c \in Codes :
          edges[start_currency][c] # NoEdge /\ edges[start_currency][c].market.deposit
    /\ \E i \in 1..Len(paths) :
          \E k \in 2..(Len(paths[i]) - 1) : LegMarket(paths[i], k).deposit

\* The chain of result R that order i of the input is in, and its place in it
InChain(R, i, x, j) == x \in 1..Len(R) /\ j \in 1..Len(R[x]) /\ R[x][j] = i

\* C25: parallelize_orders returns non-empty chains that hold every order of
\* the input that is not a deposit, once, and no deposit; a chain is a run of
\* consecutive orders of the input, the chains follow each other in the order
\* of the input, and an order is the first of its chain exactly when it is the
\* first order, follows a deposit, or can be executed.
C25_Chains ==
    \A c \in 1..Len(outcome) :
        LET os == outcome[c].orders
            R == outcome[c].result
        IN  /\ \A x \in 1..Len(R) : Len(R[x]) > 0
            /\ \A i \in 1..Len(os) :
                  Cardinality({xj \in (1..Len(R)) \X (1..Len(os)) :
                                 InChain(R, i, xj[1], xj[2])})
                      = IF os[i].dep THEN 0 ELSE 1
            /\ \A x \in 1..Len(R) : \A j \in 1..(Len(R[x]) - 1) :
                  R[x][j + 1] = R[x][j] + 1
            /\ \A x \in 1..(Len(R) - 1) : R[x][Len(R[x])] < R[x + 1][1]
            /\ \A x \in 1..Len(R) : \A j \in 1..Len(R[x]) :
                  (j = 1) <=> \/ R[x][j] = 1
                              \/ os[R[x][j] - 1].dep
                              \/ can_be_executed(os[R[x][j]])

\* reached: a list with a deposit after which an order that cannot be executed
\* is followed by one that cannot either and by one that can: three chains, the
\* middle one of two orders
C25_Witness ==
    /\ Len(outcome) = 1
    /\ Len(outcome[1].orders) = 5
    /\ outcome[1].orders[2].dep
    /\ ~can_be_executed(outcome[1].orders[3])
    /\ ~can_be_executed(outcome[1].orders[4])
    /\ can_be_executed(outcome[1].orders[5])
    /\ outcome[1].result = <<(<<1>>), <<3, 4>>, (<<5>>)>>

\* C26, as stated: when a sequence has been registered, its count in
\* self.sequences is the number of orders of the candidate, deposits included.
C26_CountIsTotal ==
    pc = "dispatch" => sequences[sequence_id] = Len(hist[sequence_id].orders)

\* C26, amended: when a sequence has been registered, its count in
\* self.sequences is the number of orders of the candidate that are not
\* deposits.
C26_CountIsTrades ==
    pc = "dispatch" => sequences[sequence_id] = Legs(sequence_id)

\* reached: a sequence of two trading orders with a deposit between them has
\* been registered, with a count of two
C26_Witness ==
    /\ pc = "dispatch"
    /\ Len(hist[sequence_id].orders) = 3
    /\ hist[sequence_id].orders[2]
    /\ sequences[sequence_id] = 2

\* Order i of candidate k is registered as the successor of order i - 1
Follows(k, i) ==
    /\ <<0, k, i - 1>> \in DOMAIN order_sequence
    /\ order_sequence[<<0, k, i - 1>>] = <<k, i>>

\* C27: an order that follows another in its chain has been handed to the
\* request queue only if its predecessor has reported COMPLETED and trading is
\* enabled; while the predecessor has reported REJECTED, or PENDING only, or
\* nothing, the order has not been submitted.
C27_ChainOrder ==
    \A k \in 1..MaxCandidates : \A i \in 2..Len(hist[k].st) :
        (Follows(k, i) /\ hist[k].st[i] # "new") =>
            hist[k].st[i - 1] = "COMPLETED" /\ trading_enabled

\* reached: the second order of a chain is at the exchange after the first
\* has reported COMPLETED
C27_Witness ==
    \E k \in 1..MaxCandidates : \E i \in 2..Len(hist[k].st) :
        /\ Follows(k, i)
        /\ hist[k].st[i - 1] = "COMPLETED"
        /\ hist[k].st[i] = "sent"

\* The sequences whose admission has finished (currentSequences += 1 is done)
\* and those whose completion has (currentSequences -= 1 and the del are done)
Admissions == {k \in 1..MaxCandidates : hist[k].started}
Completions == {k \in 1..MaxCandidates : hist[k].admitted /\ k \notin DOMAIN sequences}

\* C28: no update of currentSequences is lost: when neither the scanner nor a
\* callback is in the middle of its update, currentSequences is the number of
\* admissions that have finished minus the number of completions that have.
C28_NoLostUpdate ==
    (pc # "incr_store" /\ cbSeq = 0) =>
        currentSequences = Cardinality(Admissions) - Cardinality(Completions)

\* reached: the only sequence admitted has completed, the scanner is back at
\* the head of its loop, no callback is running, and currentSequences is 1
C28_Reached ==
    /\ pc = "get"
    /\ cbSeq = 0
    /\ Admissions = {1}
    /\ Completions = {1}
    /\ nextId = 1
    /\ currentSequences = 1

\* Candidate k was found by the scanner and rejected at its registration
Rejected(k) == k <= nextId /\ ~hist[k].admitted

\* C29: once a candidate has been rejected at its registration, self.sequences
\* has no entry for its sequence id, and self.orders and self.order_sequence
\* hold no order for the ids of its orders.
C29_RolledBack ==
    \A k \in 1..MaxCandidates :
        Rejected(k) =>
            /\ k \notin DOMAIN sequences
            /\ \A i \in 1..Len(hist[k].orders) :
                  /\ ~orders[<<k, i>>]
                  /\ order_sequence[<<0, k, i>>] = NoOrder

\* reached: a candidate was rejected for its first order's balance, the
\* scanner is back at the head of its loop, and self.sequences still has the
\* entry of the candidate
C29_Reached ==
    /\ pc = "get"
    /\ \E k \in 1..MaxCandidates :
          /\ Rejected(k)
          /\ hist[k].unfunded
          /\ k \in DOMAIN sequences
          /\ \A i \in 1..Len(hist[k].orders) :
                ~orders[<<k, i>>] /\ order_sequence[<<0, k, i>>] = NoOrder

\* C30: Order.make_valid ends within MAX passes, and it raises ImpossibleOrder
\* only when a rule has raised it or when the last of the MAX passes has still
\* reported a change: a call whose last pass reports no change returns.
C30_RaisesOnlyUnsettled ==
    \A i \in 1..Len(outcome) :
        /\ outcome[i].iterations <= MAX
        /\ outcome[i].raised =>
              \/ outcome[i].impossible
              \/ outcome[i].iterations = MAX /\ outcome[i].changes

\* reached: a call has made MAX passes, no rule has raised, the last pass has
\* reported no change, and the call has raised ImpossibleOrder
C30_Reached ==
    /\ Len(outcome) = 1
    /\ outcome[1].iterations = MAX
    /\ ~outcome[1].changes
    /\ ~outcome[1].impossible
    /\ outcome[1].raised

\* a is a whole multiple of b (b not zero)
Multiple(a, b) == (a[1] * b[2]) % (a[2] * Abs(b[1])) = 0

\* C31: one SizeRule.make_valid with a step, on an order whose size is not a
\* multiple of the step, either raises ImpossibleOrder or leaves a size that is
\* a multiple of the step.
C31_StepMultiple ==
    LET rule == rules[order.market][1]
    IN  (Len(outcome) = 1 /\ ~DIsZero(rule.step)
            /\ ~Multiple(outcome[1].size, rule.step) /\ ~outcome[1].raised) =>
            Multiple(outcome[1].quantity, rule.step)

\* reached: the rule, with a step and no bounds of its own, was given a size
\* within the bounds of the order that is not a multiple of the step and whose
\* round-down is below the minimum size of the order; it has returned normally
\* and reported a change
C31_Reached ==
    LET rule == rules[order.market][1]
    IN  /\ Len(outcome) = 1
        /\ ~DIsZero(rule.step) /\ DIsZero(rule.minimum) /\ DIsZero(rule.maximum)
        /\ ~Multiple(outcome[1].size, rule.step)
        /\ DLe(order.minimum, outcome[1].size) /\ DLe(outcome[1].size, order.maximum)
        /\ DLt(DSub(outcome[1].size, DMod(outcome[1].size, rule.step)), order.minimum)
        /\ ~outcome[1].raised
        /\ outcome[1].changes
        /\ ~Multiple(outcome[1].quantity, rule.step)

\* The scanner thread has ended (its loop has been left, or an exception has
\* ended it) and every Worker has ended
Terminated ==
    /\ pc \in {"exited", "crashed"}
    /\ \A w \in 1..NumWorkers : workers[w] = "exited"

\* C32: once App.exit has set the stop flag, queued a shutdown task for every
\* Worker and posted None to the scan queue, the scanner thread and every
\* Worker eventually end, whatever was queued.
C32_ExitTerminates == stop ~> Terminated

\* reached: after App.exit the scanner and the Worker have ended; the Worker
\* has run a request task before its shutdown task, and a request task that the
\* scanner queued behind the shutdown task is left in the queue
C32_Witness ==
    /\ stop
    /\ Terminated
    /\ pc = "exited"
    /\ tasks # <<>>
    /\ \E k \in 1..MaxCandidates : \E i \in 1..Len(hist[k].st) :
          hist[k].st[i] \in {"sent"} \cup Terminal

\* C33: a request that raises inside a Worker does not end the Worker: a
\* Worker ends only by a shutdown task, which only App.exit queues, and the
\* tasks queued behind the failed request are still run.
C33_WorkerSurvives ==
    \A w \in 1..NumWorkers : workers[w] = "exited" => stop

\* reached: the request of the first order of candidate 1 has raised in the
\* Worker, and the Worker, still running, has sent the first order of
\* candidate 2, queued behind it
C33_Witness ==
    /\ hist[1].st # <<>>
    /\ hist[1].st[1] = "lost"
    /\ hist[2].st # <<>>
    /\ hist[2].st[1] = "sent"
    /\ \A w \in 1..NumWorkers : workers[w] = "running"

\* C34: a deposit edge is walked only from the vertex add_deposit was called
\* for (the base of its market) to the vertex of the other exchange (the
\* quote): no path has a deposit leg in the other direction.
C34_DepositDirected ==
    \A i \in 1..Len(paths) : \A k \in 1..(Len(paths[i]) - 1) :
        LegMarket(paths[i], k).deposit =>
            /\ LegMarket(paths[i], k).base = paths[i][k]
            /\ LegMarket(paths[i], k).quote = paths[i][k + 1]

\* reached: a returned path with a deposit leg that starts at the quote of the
\* deposit market and ends at its base
C34_Reached ==
    \E i \in 1..Len(paths) : \E k \in 2..(Len(paths[i]) - 1) :
        /\ LegMarket(paths[i], k).deposit
        /\ LegMarket(paths[i], k).quote = paths[i][k]
        /\ LegMarket(paths[i], k).base = paths[i][k + 1]

\* Sequence k has been found completed by on_order_update (line 398)
Completed(k) == hist[k].admitted /\ (k \notin DOMAIN sequences \/ cbSeq = k)

\* A callback with status PENDING leaves the counts as they are
PendingFrame ==
    \A o \in exchangeOrders :
        on_order_update(o, "PENDING") =>
            UNCHANGED <<sequences, currentSequences, cbSeq, cbTmp>>

\* C35: an order update with status PENDING changes neither the count of the
\* order's sequence nor currentSequences, and a sequence is found completed
\* (currentSequences taken down for it) only when every one of its trading
\* orders has its terminal status.
C35_CountedWhenTerminal ==
    /\ [](\A k \in 1..MaxCandidates : Completed(k) => Open(k) = {})
    /\ [][PendingFrame]_vars

\* reached: a sequence of two trading orders has been completed and
\* currentSequences taken down, both orders COMPLETED
C35_Witness ==
    \E k \in 1..MaxCandidates :
        /\ Completed(k)
        /\ cbSeq = 0
        /\ Legs(k) = 2
        /\ \A i \in 1..Len(hist[k].st) : ~hist[k].orders[i] => hist[k].st[i] = "COMPLETED"
        /\ currentSequences = 0

\* C36: currentSequences is never negative, also when the callbacks of all the
\* orders of a sequence arrive before the scanner has counted the sequence.
C36_NonNegative == currentSequences >= 0

\* reached: the scanner has dispatched the orders of a sequence and not yet
\* counted it, the sequence has been completed by the callbacks, and
\* currentSequences is negative
C36_Reached ==
    /\ pc \in {"incr_load", "incr_store"}
    /\ Completed(sequence_id)
    /\ cbSeq = 0
    /\ ~hist[sequence_id].started
    /\ currentSequences < 0

\* The quantity q and the price satisfy the rule
Satisfies(rule, price, q) ==
    IF rule.type = "SizeRule"
    THEN /\ DLt(D(0), rule.minimum) => DLe(rule.minimum, q)
         /\ DLt(D(0), rule.maximum) => DLe(q, rule.maximum)
         /\ ~DIsZero(rule.step) => Multiple(q, rule.step)
    ELSE DLe(rule.min_value, DMul(price, q))

\* The market of the order has a SizeRule and a ValueRule, in either order
BothRules ==
    /\ Len(rules[order.market]) = 2
    /\ {rules[order.market][1].type, rules[order.market][2].type} = {"SizeRule", "ValueRule"}

\* C37: when make_valid returns normally on a market with a SizeRule and a
\* ValueRule, the quantity satisfies both rules: within the bounds of the
\* SizeRule, a multiple of its step, and price * quantity at least min_value.
C37_AllRulesHold ==
    (BothRules /\ Len(outcome) >= 1 /\ ~outcome[1].raised) =>
        \A i \in 1..2 : Satisfies(rules[order.market][i], order.price, outcome[1].quantity)

\* reached: the SizeRule comes first, make_valid has returned normally at its
\* first call, the value of the order is at least min_value, and the quantity
\* is not a multiple of the step
C37_Reached ==
    /\ BothRules
    /\ rules[order.market][1].type = "SizeRule"
    /\ Len(outcome) = 1
    /\ ~outcome[1].raised
    /\ Satisfies(rules[order.market][2], order.price, outcome[1].quantity)
    /\ ~DIsZero(rules[order.market][1].step)
    /\ ~Multiple(outcome[1].quantity, rules[order.market][1].step)

\* C38: the first order of every list whose profit scan_paths computes needs
\* more than nothing of its source currency, whatever the ladders hold (also a
\* level of size 0 at a price that was not there), so the division of the
\* profit never raises.
C38_ProfitDefined ==
    \A c \in 1..Len(outcome) : ~outcome[c].raised

\* reached: the top of a ladder of the scanned market is a level of size 0,
\* and the scan of the market has ended in the division of the profit
C38_Reached ==
    /\ Len(outcome) = 1
    /\ outcome[1].raised
    /\ \/ /\ get_ask_price(askHeap[outcome[1].market]) # NoItem
          /\ get_item(get_ask_price(askHeap[outcome[1].market])) = 0
       \/ /\ get_bid_price(bidHeap[outcome[1].market]) # NoItem
          /\ get_item(get_bid_price(bidHeap[outcome[1].market])) = 0

C40_EventuallyCompleted ==
    \A k \in 1..MaxCandidates :
        hist[k].started ~> (k \notin DOMAIN sequences /\ cbSeq # k)

\* reached: a sequence was admitted and counted while trading was disabled;
\* none of its orders has been handed to a Worker, nothing is queued or at the
\* exchange, and the scanner waits for the next scan request
C40_Reached ==
    \E k \in 1..MaxCandidates :
        /\ hist[k].started
        /\ k \in DOMAIN sequences
        /\ \A i \in 1..Len(hist[k].st) : hist[k].st[i] = "new"
        /\ currentSequences = 1
        /\ tasks = <<>>
        /\ exchangeOrders = {}
        /\ pc = "get"

====
